---- MODULE Spec2Model ----
(***************************************************************************)
(* A state-machine model of the ray tracer (artran/ray-tracer).            *)
(*                                                                         *)
(* Numbers.  An f32 is modelled as an extended rational <<n, d>> with      *)
(* d >= 0 and gcd(n, d) = 1.  d > 0 is the rational n/d; <<1, 0>> and      *)
(* <<-1, 0>> are +infinity and -infinity and <<0, 0>> is NaN, with the     *)
(* IEEE rules for them (x/0, 0/0, inf - inf, comparisons with NaN).        *)
(* Rounding error, overflow to infinity and the sign of zero are not       *)
(* modelled: arithmetic on finite values is exact.                         *)
(***************************************************************************)
EXTENDS Integers, Sequences, FiniteSets

VARIABLES
    xs,        \* Intersections.intersections (the Vec<Intersection>)
    pushed,    \* history: the intersections handed to push, in call order
    hitRes,    \* the value returned by the last call of hit()
    rayRes,    \* the outcome of the last call of Ray::new
    mat,       \* the Matrix<4> at hand and what was computed from it
    builder,   \* the SphereBuilder, PlaneBuilder or CameraBuilder in progress
    built,     \* the outcome of the last build()
    queryRes,  \* the value returned by the last call of transformation()
    renderRes, \* the outcome of the last call of Camera::render
    wbuilder,  \* the WorldBuilder in progress
    world,     \* the World built last
    colorRes,  \* the outcome of the last call of World::color_at
    call       \* the last call of one of the other functions: its name, input and output

xsVars == <<xs, pushed, hitRes>>

rayVars == <<rayRes>>

matVars == <<mat>>

bldVars == <<builder, built, queryRes, renderRes>>

worldVars == <<wbuilder, world, colorRes>>

fnVars == <<call>>

vars == <<xsVars, rayVars, matVars, bldVars, worldVars, fnVars>>

----------------------------------------------------------------------------
(* f32 arithmetic                                                          *)

Abs(i) == IF i < 0 THEN -i ELSE i

Sgn(i) == IF i < 0 THEN -1 ELSE IF i > 0 THEN 1 ELSE 0

RECURSIVE GCD(_, _)
GCD(a, b) == IF b = 0 THEN a ELSE GCD(b, a % b)

\* the extended rational n/d in lowest terms
Norm(n, d) ==
    IF d = 0 THEN <<Sgn(n), 0>>
    ELSE LET g == GCD(Abs(n), Abs(d))
             s == IF d < 0 THEN -1 ELSE 1
         IN  <<s * (n \div g), s * (d \div g)>>

NaN == <<0, 0>>
Inf == <<1, 0>>
Zero == <<0, 1>>
One == <<1, 1>>
R(i) == <<i, 1>>
Q(n, d) == Norm(n, d)

IsNaN(a) == a = NaN
IsFinite(a) == a[2] # 0

RNeg(a) == <<-a[1], a[2]>>

RAdd(a, b) ==
    IF a[2] = 0 /\ b[2] = 0
    THEN (IF a = b THEN a ELSE NaN)
    ELSE IF a[2] = 0 THEN a
    ELSE IF b[2] = 0 THEN b
    ELSE LET g == GCD(a[2], b[2])
         IN  Norm(a[1] * (b[2] \div g) + b[1] * (a[2] \div g), (a[2] \div g) * b[2])

RSub(a, b) == RAdd(a, RNeg(b))

RMul(a, b) ==
    IF a[2] = 0 \/ b[2] = 0
    THEN <<Sgn(a[1]) * Sgn(b[1]), 0>>
    ELSE LET g1 == GCD(Abs(a[1]), b[2])
             g2 == GCD(Abs(b[1]), a[2])
         IN  IF a[1] = 0 \/ b[1] = 0 THEN Zero
             ELSE <<(a[1] \div g1) * (b[1] \div g2), (a[2] \div g2) * (b[2] \div g1)>>

\* 1/b: 1/0 is +infinity, 1/inf is 0, 1/NaN is NaN
RInv(b) ==
    IF b = NaN THEN NaN
    ELSE IF b[2] = 0 THEN Zero
    ELSE IF b[1] < 0 THEN <<-b[2], -b[1]>>
    ELSE <<b[2], b[1]>>

RDiv(a, b) == RMul(a, RInv(b))

\* IEEE comparisons: every comparison with NaN is false
RLt(a, b) ==
    /\ a # NaN
    /\ b # NaN
    /\ IF a[2] = 0 /\ b[2] = 0 THEN a[1] < b[1]
       ELSE a[1] * b[2] < b[1] * a[2]

RLe(a, b) == a # NaN /\ b # NaN /\ ~RLt(b, a)
RGt(a, b) == RLt(b, a)
RGe(a, b) == RLe(b, a)
REq(a, b) == a # NaN /\ b # NaN /\ a = b
RNe(a, b) == ~REq(a, b)

RAbs(a) == <<Abs(a[1]), a[2]>>


\* floor of the square root of a natural number
RECURSIVE ISqrtFrom(_, _, _)
ISqrtFrom(n, lo, hi) ==
    IF lo >= hi THEN lo
    ELSE LET mid == (lo + hi + 1) \div 2
         IN  IF mid <= n \div mid THEN ISqrtFrom(n, mid, hi) ELSE ISqrtFrom(n, lo, mid - 1)

ISqrt(n) == ISqrtFrom(n, 0, IF n < 46340 THEN n ELSE 46340)

IsSquare(n) == ISqrt(n) * ISqrt(n) = n

\* resolution of the modelled square root where the root is irrational
SqrtScale == 16

\* f32::sqrt: NaN for a negative or NaN argument; the exact root when it is
\* rational, and otherwise the root rounded down to a multiple of 1/SqrtScale
RSqrt(a) ==
    IF a = NaN \/ a[1] < 0 THEN NaN
    ELSE IF a[2] = 0 THEN a
    ELSE IF IsSquare(a[1]) /\ IsSquare(a[2]) THEN Norm(ISqrt(a[1]), ISqrt(a[2]))
    ELSE Norm(ISqrt((a[1] \div a[2]) * SqrtScale * SqrtScale
                    + ((a[1] % a[2]) * SqrtScale * SqrtScale) \div a[2]), SqrtScale)

SqrtExact(a) == a[2] = 0 \/ a[1] < 0 \/ (IsSquare(a[1]) /\ IsSquare(a[2]))

\* f32::round: to the nearest integer, halves away from zero
RRound(a) ==
    IF a[2] = 0 THEN a
    ELSE <<Sgn(a[1]) * ((2 * Abs(a[1]) + a[2]) \div (2 * a[2])), 1>>

\* f32::floor: toward minus infinity
RFloor(a) == IF a[2] = 0 THEN a ELSE <<a[1] \div a[2], 1>>

\* the width of isize, scaled down
IsizeBits == 6

\* `as isize` of an f32: NaN is 0, the fraction is dropped toward 0, and a value
\* out of range saturates at isize::MIN or isize::MAX
as_isize(a) ==
    IF a = NaN THEN 0
    ELSE IF RGe(a, R(2 ^ (IsizeBits - 1))) THEN 2 ^ (IsizeBits - 1) - 1
    ELSE IF RLt(a, R(-(2 ^ (IsizeBits - 1)))) THEN -(2 ^ (IsizeBits - 1))
    ELSE Sgn(a[1]) * (Abs(a[1]) \div a[2])

\* the % of isize: the remainder has the sign of the dividend
isize_rem(a, b) == Sgn(a) * (Abs(a) % b)

\* f32::powi / powf with a natural exponent
RECURSIVE RPow(_, _)
RPow(a, k) ==
    IF k = 0 THEN One
    ELSE IF a = One \/ a = Zero THEN a
    ELSE IF k % 2 = 0 THEN LET h == RPow(a, k \div 2) IN RMul(h, h)
    ELSE RMul(a, RPow(a, k - 1))

----------------------------------------------------------------------------
(* vector4.rs: Vector4 as <<x, y, z, w>>                                   *)

\* the tuple of the elements of the array f
Tuple(f) == f \o <<>>

Vector4_new(x, y, z, w) == <<x, y, z, w>>

point(x, y, z) == <<x, y, z, One>>

vector(x, y, z) == <<x, y, z, Zero>>

VAdd(a, b) == Tuple([i \in 1..4 |-> RAdd(a[i], b[i])])

VSub(a, b) == Tuple([i \in 1..4 |-> RSub(a[i], b[i])])

VNeg(a) == Tuple([i \in 1..4 |-> RNeg(a[i])])

VScale(a, k) == Tuple([i \in 1..4 |-> RMul(a[i], k)])

VDiv(a, k) == Tuple([i \in 1..4 |-> RDiv(a[i], k)])

dot(a, b) ==
    RAdd(RAdd(RAdd(RMul(a[1], b[1]), RMul(a[2], b[2])), RMul(a[3], b[3])), RMul(a[4], b[4]))

\* Vector4::is_point: self.w.round() == 1.0
is_point(v) == REq(RRound(v[4]), One)

\* Vector4::is_vector: self.w.round() == 0.0
is_vector(v) == REq(RRound(v[4]), Zero)

reflect(v, normal) == VSub(v, VScale(VScale(normal, R(2)), dot(v, normal)))

magnitude(v) == RSqrt(dot(v, v))

normalize(v) == Tuple([i \in 1..4 |-> RDiv(v[i], magnitude(v))])

\* PartialEq for Vector4: every component differs by less than EPSILON
EPSILON == Q(1, 1000)

Vector4_eq(a, b) == \A i \in 1..4 : RLt(RAbs(RSub(a[i], b[i])), EPSILON)

----------------------------------------------------------------------------
(* matrix.rs: Matrix<L> as a tuple of L rows of L numbers; the operators   *)
(* take the 0-based indices of the code                                    *)

\* Matrix::new: all slots 0.0
Matrix_new(L) == Tuple([r \in 1..L |-> Tuple([c \in 1..L |-> Zero])])

\* Index<[usize; 2]>
At(m, row, col) == m[row + 1][col + 1]

\* Matrix::<4>::identity
identity ==
    <<<<One, Zero, Zero, Zero>>,
      <<Zero, One, Zero, Zero>>,
      <<Zero, Zero, One, Zero>>,
      <<Zero, Zero, Zero, One>>>>

\* impl Mul for Matrix<4>
matrix_mul(a, b) ==
    Tuple([r \in 1..4 |-> Tuple([c \in 1..4 |->
        RAdd(RAdd(RAdd(RMul(a[r][1], b[1][c]), RMul(a[r][2], b[2][c])),
                  RMul(a[r][3], b[3][c])),
             RMul(a[r][4], b[4][c]))])])

\* impl Mul<Vector4> for Matrix<4>
matrix_mul_vec(m, v) ==
    Tuple([r \in 1..4 |->
        RAdd(RAdd(RAdd(RMul(m[r][1], v[1]), RMul(m[r][2], v[2])), RMul(m[r][3], v[3])),
             RMul(m[r][4], v[4])) ])

\* impl PartialEq for Matrix<L>: no entry differs by more than EPSILON
Matrix_eq(a, b) ==
    \A r \in 1..Len(a), c \in 1..Len(a) : ~RGt(RAbs(RSub(a[r][c], b[r][c])), EPSILON)

\* Vec::remove(i), i 0-based
Remove(v, i) == Tuple([k \in 1..(Len(v) - 1) |-> IF k <= i THEN v[k] ELSE v[k + 1]])

\* fn submatrix: drop row cut_row, then column cut_col of every row left
submatrix(old_matrix, cut_row, cut_col) ==
    Tuple([i \in 1..(Len(old_matrix) - 1) |-> Remove(Remove(old_matrix, cut_row)[i], cut_col)])

\* Matrix::<2>::determinant
determinant2(m) == RSub(RMul(At(m, 0, 0), At(m, 1, 1)), RMul(At(m, 0, 1), At(m, 1, 0)))

\* Matrix::<3>::minor, cofactor, determinant
minor3(m, row, col) == determinant2(submatrix(m, row, col))

cofactor3(m, row, col) ==
    IF (row + col) % 2 = 0 THEN minor3(m, row, col) ELSE RNeg(minor3(m, row, col))

determinant3(m) ==
    RAdd(RAdd(RAdd(Zero, RMul(At(m, 0, 0), cofactor3(m, 0, 0))),
              RMul(At(m, 0, 1), cofactor3(m, 0, 1))),
         RMul(At(m, 0, 2), cofactor3(m, 0, 2)))

\* Matrix::<4>::transpose
transpose_swapped(m) ==
    <<<<At(m, 0, 0), At(m, 1, 0), At(m, 2, 0), At(m, 3, 0)>>,
      <<At(m, 0, 1), At(m, 1, 1), At(m, 2, 1), At(m, 3, 1)>>,
      <<At(m, 0, 2), At(m, 1, 2), At(m, 2, 2), At(m, 2, 3)>>,
      <<At(m, 0, 3), At(m, 1, 3), At(m, 3, 2), At(m, 3, 3)>>>>

transpose(m) ==
    <<<<At(m, 0, 0), At(m, 1, 0), At(m, 2, 0), At(m, 3, 0)>>,
      <<At(m, 0, 1), At(m, 1, 1), At(m, 2, 1), At(m, 3, 1)>>,
      <<At(m, 0, 2), At(m, 1, 2), At(m, 2, 2), At(m, 3, 2)>>,
      <<At(m, 0, 3), At(m, 1, 3), At(m, 2, 3), At(m, 3, 3)>>>>

\* Matrix::<4>::minor, cofactor, determinant
minor(m, row, col) == determinant3(submatrix(m, row, col))

cofactor(m, row, col) ==
    IF (row + col) % 2 = 0 THEN minor(m, row, col) ELSE RNeg(minor(m, row, col))

determinant(m) ==
    RAdd(RAdd(RAdd(RAdd(Zero, RMul(At(m, 0, 0), cofactor(m, 0, 0))),
                   RMul(At(m, 0, 1), cofactor(m, 0, 1))),
              RMul(At(m, 0, 2), cofactor(m, 0, 2))),
         RMul(At(m, 0, 3), cofactor(m, 0, 3)))

\* Matrix::<4>::is_invertible: self.determinant() != 0.0
is_invertible_positive(m) == RGt(determinant(m), Zero)

is_invertible(m) == RNe(determinant(m), Zero)

\* Matrix::<4>::try_inverse: Err(NonInvertibleError), or Ok of the matrix
\* with new_matrix[col][row] = cofactor(row, col) / det
NonInvertibleError == [ok |-> FALSE, m |-> Matrix_new(4)]

inverse_with(m, det) ==
    [ok |-> TRUE,
     m |-> Tuple([col \in 1..4 |-> Tuple([row \in 1..4 |->
               RDiv(cofactor(m, row - 1, col - 1), det)])])]

try_inverse(m) ==
    IF ~is_invertible(m) THEN NonInvertibleError
    ELSE inverse_with(m, determinant(m))

----------------------------------------------------------------------------
(* transform.rs: the rational transforms                                   *)

translation(x, y, z) ==
    <<<<One, Zero, Zero, x>>,
      <<Zero, One, Zero, y>>,
      <<Zero, Zero, One, z>>,
      <<Zero, Zero, Zero, One>>>>

scaling(x, y, z) ==
    <<<<x, Zero, Zero, Zero>>,
      <<Zero, y, Zero, Zero>>,
      <<Zero, Zero, z, Zero>>,
      <<Zero, Zero, Zero, One>>>>

shearing(xy, xz, yx, yz, zx, zy) ==
    <<<<One, xy, xz, Zero>>,
      <<yx, One, yz, Zero>>,
      <<zx, zy, One, Zero>>,
      <<Zero, Zero, Zero, One>>>>

----------------------------------------------------------------------------
(* ray.rs: Ray                                                             *)

NoVector == <<Zero, Zero, Zero, Zero>>

\* Ray::new: the two assertions, then the ray
Ray_new(origin, direction) ==
    IF ~is_point(origin)
    THEN [st |-> "panic", msg |-> "Origin must be a point",
          origin |-> NoVector, direction |-> NoVector]
    ELSE IF ~is_vector(direction)
    THEN [st |-> "panic", msg |-> "Direction must be a vector",
          origin |-> NoVector, direction |-> NoVector]
    ELSE [st |-> "ok", msg |-> "", origin |-> origin, direction |-> direction]

\* Ray::position
position(ray, t) == VAdd(ray.origin, VScale(ray.direction, t))

\* the w components handed to Ray::new: 0 and 1, values that round to them,
\* values that do not, and NaN
WValues == {Zero, One, Q(1, 2), Q(2, 5), Q(-2, 5), Q(-1, 2), Q(7, 5), Q(3, 2), R(2), R(-1), NaN}

RayTuples == { Vector4_new(x, Zero, R(-5), w) : x \in {Zero, One}, w \in WValues }

----------------------------------------------------------------------------
(* intersection.rs: Intersection, Intersections                            *)

\* bound on the number of pushes into one collection
MaxLen == 3

\* the values of t pushed: negative, zero, positive, equal ones, and NaN
TValues == {R(-1), Zero, One, R(2), NaN}

\* the shapes an intersection refers to (Rc<Sphere> handles)
Objects == {"s1", "s2"}

\* Intersection::new
Intersection_new(t, object) == [t |-> t, object |-> object]

\* a.t.partial_cmp(&b.t).unwrap_or(Equal)
cmp_t(a, b) ==
    IF RLt(a.t, b.t) THEN "Less"
    ELSE IF RGt(a.t, b.t) THEN "Greater"
    ELSE "Equal"

\* of the indices c of s, the first one of each distinct element
Firsts(s, c) == { j \in c : \A k \in c : s[k] = s[j] => j <= k }

\* the orders of the elements of s in which no element is followed by one
\* that compares Less than it; equal elements are interchangeable, so the
\* first of them stands for all
RECURSIVE SortFrom(_, _, _)
SortFrom(s, rem, last) ==
    IF rem = {} THEN {<<>>}
    ELSE UNION { { <<s[i]>> \o r : r \in SortFrom(s, rem \ {i}, i) } :
                 i \in Firsts(s, { j \in rem : last = 0 \/ cmp_t(s[j], s[last]) # "Less" }) }

\* Intersections::sort: sort_unstable_by with cmp_t.  The order of elements that
\* compare Equal is unspecified, so sort has a set of outcomes.
sort(s) == SortFrom(s, 1..Len(s), 0)

\* Intersections::push: the outcomes of pushing intersection onto s
push_unsorted(s, intersection) == {Append(s, intersection)}

\* a push that leaves out an intersection equal to a stored one
push_once(s, intersection) ==
    IF \E k \in 1..Len(s) : s[k] = intersection THEN {s}
    ELSE sort(Append(s, intersection))

push(s, intersection) == sort(Append(s, intersection))

\* Intersections::hit: the first element with t >= 0, or None
RECURSIVE hit_from(_, _)
hit_from(s, k) ==
    IF k > Len(s) THEN [some |-> FALSE, idx |-> 0]
    ELSE IF RGe(s[k].t, Zero) THEN [some |-> TRUE, idx |-> k]
    ELSE hit_from(s, k + 1)

hit_strict(s) ==
    LET pos == { k \in 1..Len(s) : RGt(s[k].t, Zero) }
    IN  IF pos = {} THEN [some |-> FALSE, idx |-> 0]
        ELSE [some |-> TRUE, idx |-> CHOOSE k \in pos : \A j \in pos : k <= j]

hit(s) == hit_from(s, 1)

\* Intersections::len
len(s) == Len(s)

----------------------------------------------------------------------------
(* color.rs, material/mod.rs, material/builder.rs                          *)

Color_new(r, g, b) == <<r, g, b>>

black == Color_new(Zero, Zero, Zero)

white == Color_new(One, One, One)

\* pattern.rs: SolidPattern { color }, StripePattern { color1, color2 }
SolidPattern(color) == [kind |-> "solid", color1 |-> color, color2 |-> color]

StripePattern(color1, color2) == [kind |-> "stripe", color1 |-> color1, color2 |-> color2]

MaterialBuilder_new ==
    [pattern |-> SolidPattern(white), ambient |-> Q(1, 10), diffuse |-> Q(9, 10),
     specular |-> Q(9, 10), shininess |-> R(200)]

with_color(b, color) == [b EXCEPT !.pattern = SolidPattern(color)]

with_pattern(b, pattern) == [b EXCEPT !.pattern = pattern]

with_ambient(b, ambient) == [b EXCEPT !.ambient = ambient]

with_diffuse(b, diffuse) == [b EXCEPT !.diffuse = diffuse]

with_specular(b, specular) == [b EXCEPT !.specular = specular]

with_shininess(b, shininess) == [b EXCEPT !.shininess = shininess]

MaterialBuilder_build(b) ==
    [pattern |-> b.pattern, ambient |-> b.ambient, diffuse |-> b.diffuse,
     specular |-> b.specular, shininess |-> b.shininess]

----------------------------------------------------------------------------
(* sphere.rs, plane.rs, shape.rs: the shape builders and accessors         *)

\* Result::unwrap on the value of try_inverse: the matrix, or a panic
unwrap(r) ==
    IF r.ok THEN [st |-> "ok", m |-> r.m] ELSE [st |-> "panic", m |-> Matrix_new(4)]

unwrap_or_identity(r) == [st |-> "ok", m |-> IF r.ok THEN r.m ELSE identity]

\* a panic while the object is constructed: there is no object
Panicked == [st |-> "panic", obj |-> [kind |-> "none"]]

\* the struct literals Sphere { .. } and Plane { .. }, reached when the
\* unwrap of the inverse has not panicked
Sphere(inv, material) ==
    IF inv.st = "ok"
    THEN [st |-> "ok",
          obj |-> [kind |-> "sphere", inv_transform |-> inv.m, material |-> material]]
    ELSE Panicked

Plane(inv, material) ==
    IF inv.st = "ok"
    THEN [st |-> "ok",
          obj |-> [kind |-> "plane", inv_transform |-> inv.m, material |-> material]]
    ELSE Panicked

SphereBuilder_new ==
    [kind |-> "sphere", transform |-> identity,
     material |-> MaterialBuilder_build(MaterialBuilder_new)]

PlaneBuilder_new ==
    [kind |-> "plane", transform |-> identity,
     material |-> MaterialBuilder_build(MaterialBuilder_new)]

with_transform(b, transform) == [b EXCEPT !.transform = transform]

with_material(b, material) == [b EXCEPT !.material = material]

\* SphereBuilder::build: inv_transform: self.transform.try_inverse().unwrap()
SphereBuilder_build_or_identity(b) ==
    Sphere(unwrap_or_identity(try_inverse(b.transform)), b.material)

SphereBuilder_build(b) == Sphere(unwrap(try_inverse(b.transform)), b.material)

\* PlaneBuilder::build
PlaneBuilder_build(b) == Plane(unwrap(try_inverse(b.transform)), b.material)

\* Shape::transformation: self.inv_transform.try_inverse().unwrap()
transformation_stored(shape) == [st |-> "ok", m |-> shape.inv_transform]

transformation(shape) == unwrap(try_inverse(shape.inv_transform))

\* Shape::inv_transform
inv_transform(shape) == shape.inv_transform

\* pattern/solid.rs: pattern_eq downcasts the other pattern to the same type
\* and compares the colours with the derived ==, which is that of f32
Color_eq(a, b) == REq(a[1], b[1]) /\ REq(a[2], b[2]) /\ REq(a[3], b[3])

pattern_eq(a, b) ==
    a.kind = b.kind /\ Color_eq(a.color1, b.color1) /\ Color_eq(a.color2, b.color2)

\* material/mod.rs: PartialEq for Material
Material_eq(a, b) ==
    /\ REq(a.ambient, b.ambient)
    /\ REq(a.diffuse, b.diffuse)
    /\ REq(a.specular, b.specular)
    /\ REq(a.shininess, b.shininess)
    /\ pattern_eq(a.pattern, b.pattern)

\* an == of shapes on the matrices they store, the inverses
Shape_eq_stored(a, b) ==
    [st |-> "ok",
     out |-> Material_eq(a.material, b.material)
             /\ Matrix_eq(a.inv_transform, b.inv_transform)]

\* shape.rs: PartialEq for dyn Shape; && evaluates transformation(), which
\* unwraps an inverse, only for equal materials
Shape_eq(a, b) ==
    IF ~Material_eq(a.material, b.material) THEN [st |-> "ok", out |-> FALSE]
    ELSE IF transformation(a).st = "panic" \/ transformation(b).st = "panic"
    THEN [st |-> "panic", out |-> FALSE]
    ELSE [st |-> "ok", out |-> Matrix_eq(transformation(a).m, transformation(b).m)]

----------------------------------------------------------------------------
(* camera.rs: CameraBuilder, Camera::new                                   *)

\* the fields of view used: 0.0 (the builder's default) and PI / 2.0
FieldsOfView == {"0", "PI/2"}

\* (field_of_view / 2.0).tan()
tan_half(field_of_view) ==
    CASE field_of_view = "PI/2" -> One
      [] field_of_view = "2*atan(1/2)" -> Q(1, 2)
      [] field_of_view = "2*atan(3)" -> R(3)
      [] OTHER -> Zero

CameraBuilder_new ==
    [kind |-> "camera", hsize |-> 0, vsize |-> 0, field_of_view |-> "0",
     transform |-> identity]

with_hsize(b, hsize) == [b EXCEPT !.hsize = hsize]

with_vsize(b, vsize) == [b EXCEPT !.vsize = vsize]

with_field_of_view(b, field_of_view) == [b EXCEPT !.field_of_view = field_of_view]

\* the struct literal of Camera::new
Camera(hsize, vsize, inv, pixel_size, half_width, half_height) ==
    IF inv.st = "ok"
    THEN [st |-> "ok",
          obj |-> [kind |-> "camera", hsize |-> hsize, vsize |-> vsize,
                   inv_transform |-> inv.m, pixel_size |-> pixel_size,
                   half_width |-> half_width, half_height |-> half_height]]
    ELSE Panicked

\* a Camera::new that takes the branch of aspect >= 1.0 whatever the aspect
Camera_new_wide(hsize, vsize, field_of_view, transform) ==
    LET half_view == tan_half(field_of_view)
        aspect == RDiv(R(hsize), R(vsize))
        half_width == half_view
        half_height == RDiv(half_view, aspect)
        pixel_size == RDiv(RMul(half_width, R(2)), R(hsize))
    IN  Camera(hsize, vsize, unwrap(try_inverse(transform)), pixel_size,
               half_width, half_height)

Camera_new(hsize, vsize, field_of_view, transform) ==
    LET half_view == tan_half(field_of_view)
        aspect == RDiv(R(hsize), R(vsize))
        half_width == IF RGe(aspect, One) THEN half_view ELSE RMul(half_view, aspect)
        half_height == IF RGe(aspect, One) THEN RDiv(half_view, aspect) ELSE half_view
        pixel_size == RDiv(RMul(half_width, R(2)), R(hsize))
    IN  Camera(hsize, vsize, unwrap(try_inverse(transform)), pixel_size,
               half_width, half_height)

CameraBuilder_build(b) == Camera_new(b.hsize, b.vsize, b.field_of_view, b.transform)

\* Camera::ray_for_pixel
ray_for_pixel(camera, px, py) ==
    LET xoffset == RMul(RAdd(R(px), Q(1, 2)), camera.pixel_size)
        yoffset == RMul(RAdd(R(py), Q(1, 2)), camera.pixel_size)
        world_x == RSub(camera.half_width, xoffset)
        world_y == RSub(camera.half_height, yoffset)
        pixel == matrix_mul_vec(camera.inv_transform, point(world_x, world_y, R(-1)))
        origin == matrix_mul_vec(camera.inv_transform, point(Zero, Zero, Zero))
    IN  Ray_new(origin, normalize(VSub(pixel, origin)))

----------------------------------------------------------------------------
(* canvas.rs: Canvas as the tuple of its rows; camera.rs: Camera::render   *)

\* Canvas::new(width, height): height rows of width black pixels
Canvas_new(width, height) == Tuple([y \in 1..height |-> Tuple([x \in 1..width |-> black])])

\* Canvas::write_pixel: self.pixels[y][x] = *color, which panics when the
\* index is out of bounds
in_bounds(image, x, y) == y < Len(image) /\ x < Len(image[y + 1])

\* a write_pixel that takes x for the row and y for the column
write_pixel_transposed(image, x, y, color) == [image EXCEPT ![x + 1][y + 1] = color]

write_pixel(image, x, y, color) == [image EXCEPT ![y + 1][x + 1] = color]

\* Canvas::pixel_at
pixel_at(image, x, y) == image[y + 1][x + 1]

\* the colour world.color_at(&ray) returns, left symbolic in render: the
\* term color_at(Ray { origin, direction }), distinct from every Color
color_at_of(ray) == <<"color_at", "Ray", ray.origin, ray.direction>>

\* the width of usize, scaled down
UsizeBits == 3

\* a - b on usize: a panic in a build with overflow checks, else wrapping
usize_sub(a, b, checks) ==
    IF a - b < 0
    THEN (IF checks THEN [panic |-> TRUE, v |-> 0]
                    ELSE [panic |-> FALSE, v |-> (a - b) % (2 ^ UsizeBits)])
    ELSE [panic |-> FALSE, v |-> a - b]

Rendered(st, image, writes) == [st |-> st, image |-> image, writes |-> writes]

\* the loops of render from pixel (x, y) on; yend is the end of the outer
\* range; the end of the inner range is evaluated when a row starts
RECURSIVE render_from(_, _, _, _, _, _, _, _)
render_row(camera, checks, image, writes, y, yend, xend) ==
    IF xend.panic THEN Rendered("panic", image, writes)
    ELSE render_from(camera, checks, image, writes, 0, y, xend.v, yend)

render_pixel(camera, checks, image, writes, x, y, xend, yend, ray) ==
    IF ray.st = "panic" \/ ~in_bounds(image, x, y)
    THEN Rendered("panic", image, writes)
    ELSE render_from(camera, checks, write_pixel(image, x, y, color_at_of(ray)),
                     Append(writes, <<x, y>>), x + 1, y, xend, yend)

render_from(camera, checks, image, writes, x, y, xend, yend) ==
    IF y >= yend THEN Rendered("ok", image, writes)
    ELSE IF x >= xend
    THEN (IF y + 1 >= yend THEN Rendered("ok", image, writes)
          ELSE render_row(camera, checks, image, writes, y + 1, yend,
                          usize_sub(camera.hsize, 1, checks)))
    ELSE render_pixel(camera, checks, image, writes, x, y, xend, yend,
                      ray_for_pixel(camera, x, y))

render_rows(camera, checks, image, yend) ==
    IF yend.panic THEN Rendered("panic", image, <<>>)
    ELSE IF yend.v = 0 THEN Rendered("ok", image, <<>>)
    ELSE render_row(camera, checks, image, <<>>, 0, yend.v,
                    usize_sub(camera.hsize, 1, checks))

\* Camera::render with the loops running to hsize and vsize
render_to_the_edge(camera, checks) ==
    render_rows([camera EXCEPT !.hsize = camera.hsize + 1],
                checks, Canvas_new(camera.hsize, camera.vsize),
                [panic |-> FALSE, v |-> camera.vsize])

\* Camera::render
render(camera, checks) ==
    render_rows(camera, checks, Canvas_new(camera.hsize, camera.vsize),
                usize_sub(camera.vsize, 1, checks))

----------------------------------------------------------------------------
(* color.rs, light.rs, material/mod.rs: colours and Material::lighting     *)

\* impl Add, Mul, Mul<f32> for Color
CAdd(a, b) == Color_new(RAdd(a[1], b[1]), RAdd(a[2], b[2]), RAdd(a[3], b[3]))

CMul(a, b) == Color_new(RMul(a[1], b[1]), RMul(a[2], b[2]), RMul(a[3], b[3]))

CScale(a, factor) == Color_new(RMul(a[1], factor), RMul(a[2], factor), RMul(a[3], factor))

\* pattern.rs: Pattern::color_at_point for SolidPattern and StripePattern
color_at_point_by_round(pattern, point_) ==
    IF pattern.kind = "solid" THEN pattern.color1
    ELSE IF isize_rem(as_isize(RRound(point_[1])), 2) = 0 THEN pattern.color1
    ELSE pattern.color2

color_at_point(pattern, point_) ==
    IF pattern.kind = "solid" THEN pattern.color1
    ELSE IF isize_rem(as_isize(RFloor(point_[1])), 2) = 0 THEN pattern.color1
    ELSE pattern.color2

PointLight_new(pos, intensity) == [position |-> pos, intensity |-> intensity]

\* impl Default for PointLight
PointLight_default_dark == PointLight_new(point(R(-10), R(10), R(-10)), black)

PointLight_default == PointLight_new(point(R(-10), R(10), R(-10)), white)

\* f32::powf for an exponent that is a whole number
powf(a, e) == RPow(a, e[1])

\* Material::lighting: the diffuse and the specular term
diffuse_term(material, effective_color, light_dot_normal) ==
    IF RGe(light_dot_normal, Zero)
    THEN CScale(CScale(effective_color, material.diffuse), light_dot_normal)
    ELSE black

specular_term_any_eye(material, light, light_dot_normal, reflect_dot_eye) ==
    IF RGe(light_dot_normal, Zero)
    THEN CScale(CScale(light.intensity, material.specular),
                powf(reflect_dot_eye, material.shininess))
    ELSE black

specular_term(material, light, light_dot_normal, reflect_dot_eye) ==
    IF RGe(light_dot_normal, Zero) /\ RGt(reflect_dot_eye, Zero)
    THEN CScale(CScale(light.intensity, material.specular),
                powf(reflect_dot_eye, material.shininess))
    ELSE black

lighting_lit(material, light, effective_color, light_vector, eye_vector, normal_vector) ==
    CAdd(CAdd(CScale(effective_color, material.ambient),
              diffuse_term(material, effective_color, dot(light_vector, normal_vector))),
         specular_term(material, light, dot(light_vector, normal_vector),
                       dot(reflect(VNeg(light_vector), normal_vector), eye_vector)))

\* Material::lighting
lighting_unshadowed(material, light, point_, eye_vector, normal_vector, in_shadow) ==
    lighting_lit(material, light,
                 CMul(color_at_point(material.pattern, point_), light.intensity),
                 normalize(VSub(light.position, point_)), eye_vector, normal_vector)

lighting(material, light, point_, eye_vector, normal_vector, in_shadow) ==
    IF in_shadow
    THEN CScale(CMul(color_at_point(material.pattern, point_), light.intensity),
                material.ambient)
    ELSE lighting_lit(material, light,
                      CMul(color_at_point(material.pattern, point_), light.intensity),
                      normalize(VSub(light.position, point_)), eye_vector, normal_vector)

----------------------------------------------------------------------------
(* color.rs: Display for Color; canvas.rs: Canvas::save                    *)

PPM_MAX_LINE_LENGTH == 70

\* f32::clamp(0.0, 1.0): NaN stays NaN
clamp01(a) ==
    IF a = NaN THEN NaN
    ELSE IF RLt(a, Zero) THEN Zero
    ELSE IF RLt(One, a) THEN One
    ELSE a

\* f32 as u8: NaN is 0, the rest is truncated and saturates at 0 and 255
as_u8(a) ==
    IF a = NaN THEN 0
    ELSE IF a[2] = 0 THEN (IF a[1] > 0 THEN 255 ELSE 0)
    ELSE IF a[1] < 0 THEN 0
    ELSE IF a[1] \div a[2] > 255 THEN 255
    ELSE a[1] \div a[2]

\* (c.clamp(0.0, 1.0) * 255.0).round() as u8
channel(c) == as_u8(RRound(RMul(clamp01(c), R(255))))

\* the text written, as a sequence of tokens: a number in decimal, a space,
\* a newline, the magic P3
Num(n) == [k |-> "num", n |-> n]
Space == [k |-> " ", n |-> 0]
Newline == [k |-> "\n", n |-> 0]
Magic == [k |-> "P3", n |-> 0]

\* Display for Color: "{red} {green} {blue}"
Color_to_string(color) ==
    << Num(channel(color[1])), Space, Num(channel(color[2])), Space,
       Num(channel(color[3])) >>

\* the number of bytes of a token and of a text
RECURSIVE Digits(_)
Digits(n) == IF n < 10 THEN 1 ELSE 1 + Digits(n \div 10)

TokenLen(tok) == IF tok.k = "num" THEN Digits(tok.n) ELSE IF tok.k = "P3" THEN 2 ELSE 1

RECURSIVE StrLen(_)
StrLen(str) == IF str = <<>> THEN 0 ELSE TokenLen(Head(str)) + StrLen(Tail(str))

\* Canvas::width, which indexes the first row, and Canvas::height
width(canvas) == Len(canvas[1])

height(canvas) == Len(canvas)

\* the header of Canvas::save
header(canvas) ==
    << Magic, Newline, Num(width(canvas)), Space, Num(height(canvas)), Newline,
       Num(255), Newline >>

\* the writes of one row from its pixel i on, each write a text: the
\* separator, the newline of a wrap, the pixel, and the newline of the row
wrap_length(current_length, bytes_len) ==
    IF current_length + bytes_len > PPM_MAX_LINE_LENGTH THEN 1 ELSE current_length

wrap_writes(current_length, bytes_len) ==
    IF current_length + bytes_len > PPM_MAX_LINE_LENGTH THEN << <<Newline>> >> ELSE <<>>

RECURSIVE row_writes(_, _, _)
pixel_writes(row, i, current_length, pixel_bytes) ==
    wrap_writes(current_length, StrLen(pixel_bytes)) \o <<pixel_bytes>>
    \o row_writes(row, i + 1,
                  wrap_length(current_length, StrLen(pixel_bytes)) + StrLen(pixel_bytes))

row_writes(row, i, current_length) ==
    IF i > Len(row) THEN << <<Newline>> >>
    ELSE IF i > 1
    THEN << <<Space>> >> \o pixel_writes(row, i, current_length + 1, Color_to_string(row[i]))
    ELSE pixel_writes(row, i, current_length, Color_to_string(row[i]))

RECURSIVE rows_writes(_, _)
rows_writes(canvas, y) ==
    IF y > Len(canvas) THEN <<>>
    ELSE row_writes(canvas[y], 1, 0) \o rows_writes(canvas, y + 1)

RECURSIVE Flatten(_)
Flatten(texts) == IF texts = <<>> THEN <<>> ELSE Head(texts) \o Flatten(Tail(texts))

\* the writer: its write number fail_at returns an error (0: none does), and
\* Write::write, used for the header, may accept only a part of the bytes
Saved(st, file) == [st |-> st, file |-> file]

header_written(canvas, writer) ==
    IF writer.short THEN SubSeq(header(canvas), 1, 1) ELSE header(canvas)

save_rows(writes, writer, file) ==
    IF writer.fail_at >= 2 /\ writer.fail_at <= Len(writes) + 1
    THEN Saved("err", file \o Flatten(SubSeq(writes, 1, writer.fail_at - 2)))
    ELSE Saved("ok", file \o Flatten(writes))

\* Canvas::save: self.width() panics on a canvas of no row, and the result
\* of the header's write is unwrapped
save(canvas, writer) ==
    IF Len(canvas) = 0 THEN Saved("panic", <<>>)
    ELSE IF writer.fail_at = 1 THEN Saved("panic", <<>>)
    ELSE save_rows(rows_writes(canvas, 1), writer, header_written(canvas, writer))

----------------------------------------------------------------------------
(* ray.rs, sphere.rs, shape.rs: intersecting a shape, the normal           *)

\* Ray::transform
Ray_transform(ray, m) ==
    [st |-> "ok", msg |-> "", origin |-> matrix_mul_vec(m, ray.origin),
     direction |-> matrix_mul_vec(m, ray.direction)]

\* a local_intersect that keeps only the roots ahead of the ray
sphere_roots_ahead(a, b, discriminant) ==
    IF RLt(discriminant, Zero) THEN <<>>
    ELSE SelectSeq(<< RDiv(RSub(RNeg(b), RSqrt(discriminant)), RMul(R(2), a)),
                      RDiv(RAdd(RNeg(b), RSqrt(discriminant)), RMul(R(2), a)) >>,
                   LAMBDA t : RLe(Zero, t))

\* Sphere::local_intersect: the roots, given a, b and the discriminant
sphere_roots(a, b, discriminant) ==
    IF RLt(discriminant, Zero) THEN <<>>
    ELSE << RDiv(RSub(RNeg(b), RSqrt(discriminant)), RMul(R(2), a)),
            RDiv(RAdd(RNeg(b), RSqrt(discriminant)), RMul(R(2), a)) >>

sphere_abc(a, b, c) == sphere_roots(a, b, RSub(RMul(b, b), RMul(RMul(R(4), a), c)))

sphere_to_ray_roots(direction, sphere_to_ray) ==
    sphere_abc(dot(direction, direction),
               RMul(R(2), dot(direction, sphere_to_ray)),
               RSub(dot(sphere_to_ray, sphere_to_ray), One))

local_intersect(transformed_ray) ==
    sphere_to_ray_roots(transformed_ray.direction,
                        VSub(transformed_ray.origin, point(Zero, Zero, Zero)))

\* crate::consts::EPSILON, the threshold of Plane::local_intersect
Plane_EPSILON == Q(1, 1000)

\* a local_intersect that compares direction.y itself with EPSILON
Plane_local_intersect_signed(ray) ==
    IF RLt(ray.direction[2], Plane_EPSILON) THEN <<>>
    ELSE << RDiv(RNeg(ray.origin[2]), ray.direction[2]) >>

\* Plane::local_intersect
Plane_local_intersect(ray) ==
    IF RLt(RAbs(ray.direction[2]), Plane_EPSILON) THEN <<>>
    ELSE << RDiv(RNeg(ray.origin[2]), ray.direction[2]) >>

\* the local_intersect of the shape's type
local_intersect_of(shape, transformed_ray) ==
    IF shape.kind = "plane" THEN Plane_local_intersect(transformed_ray)
    ELSE local_intersect(transformed_ray)

\* Shape::intersect
intersect(shape, ray) ==
    local_intersect_of(shape, Ray_transform(ray, shape.inv_transform))

\* Sphere::local_normal_at
local_normal_at(object_point) == VSub(object_point, point(Zero, Zero, Zero))

\* Plane::local_normal_at
Plane_local_normal_at(object_point) == vector(Zero, One, Zero)

\* the local_normal_at of the shape's type
local_normal_at_of(shape, object_point) ==
    IF shape.kind = "plane" THEN Plane_local_normal_at(object_point)
    ELSE local_normal_at(object_point)

\* Shape::normal_at
world_normal(v) == normalize(<<v[1], v[2], v[3], Zero>>)

\* a normal_at that leaves out world_normal.w = 0.0
normal_at_keep_w(shape, world_point) ==
    normalize(matrix_mul_vec(transpose(shape.inv_transform),
                             local_normal_at_of(shape,
                                                matrix_mul_vec(shape.inv_transform,
                                                               world_point))))

normal_at(shape, world_point) ==
    world_normal(matrix_mul_vec(transpose(shape.inv_transform),
                                local_normal_at_of(shape,
                                                   matrix_mul_vec(shape.inv_transform,
                                                                  world_point))))

----------------------------------------------------------------------------
(* intersection.rs: prepare_computations; world.rs: World                  *)

\* a Computations whose over_point lies below the surface
Computations_under(t, object, point_, eye_vector, normal_vector, inside) ==
    [t |-> t, object |-> object, point |-> point_,
     over_point |-> VSub(point_, VScale(normal_vector, EPSILON)),
     eye_vector |-> eye_vector, normal_vector |-> normal_vector, inside |-> inside]

Computations(t, object, point_, eye_vector, normal_vector, inside) ==
    [t |-> t, object |-> object, point |-> point_,
     over_point |-> VAdd(point_, VScale(normal_vector, EPSILON)),
     eye_vector |-> eye_vector, normal_vector |-> normal_vector, inside |-> inside]

\* a prepare_computations that sets inside and keeps the normal
prepare_with_kept(i, point_, eye_vector, normal_vector) ==
    IF RLt(dot(normal_vector, eye_vector), Zero)
    THEN Computations(i.t, i.object, point_, eye_vector, normal_vector, TRUE)
    ELSE Computations(i.t, i.object, point_, eye_vector, normal_vector, FALSE)

prepare_with(i, point_, eye_vector, normal_vector) ==
    IF RLt(dot(normal_vector, eye_vector), Zero)
    THEN Computations(i.t, i.object, point_, eye_vector, VNeg(normal_vector), TRUE)
    ELSE Computations(i.t, i.object, point_, eye_vector, normal_vector, FALSE)

prepare_at(i, ray, point_) ==
    prepare_with(i, point_, VNeg(ray.direction), normal_at(i.object, point_))

\* Intersection::prepare_computations
prepare_computations(i, ray) == prepare_at(i, ray, position(ray, i.t))

\* o.intersect(ray) as World::intersect calls it: the Intersections of the
\* object, each t of Shape::intersect tagged with the object
tagged(ts, o) == Tuple([k \in 1..Len(ts) |-> Intersection_new(ts[k], o)])

object_intersect(o, ray) == tagged(intersect(o, ray), o)

\* World::intersect: every intersection of every object is pushed on found,
\* in the order of the objects; found is one of the orders the sorts allow
RECURSIVE all_intersections(_, _, _)
all_intersections(objects, ray, k) ==
    IF k > Len(objects) THEN <<>>
    ELSE object_intersect(objects[k], ray) \o all_intersections(objects, ray, k + 1)

RECURSIVE push_all(_, _, _)
push_all(founds, items, k) ==
    IF k > Len(items) THEN founds
    ELSE push_all(UNION { push(found, items[k]) : found \in founds }, items, k + 1)

Option(found) == IF len(found) = 0 THEN [some |-> FALSE, xs |-> <<>>]
                 ELSE [some |-> TRUE, xs |-> found]

\* a World::intersect that leaves the intersections in the order found
World_intersect_unsorted(w, ray) ==
    { Option(all_intersections(w.objects, ray, 1)) }

World_intersect(w, ray) ==
    { Option(found) : found \in push_all({<<>>}, all_intersections(w.objects, ray, 1), 1) }

\* World::is_shadowed: the outcomes, a panic of Ray::new among them
shadow_hit_anywhere(found, h, distance) == h.some

shadow_hit(found, h, distance) == h.some /\ RLt(found.xs[h.idx].t, distance)

shadow_found(found, distance) ==
    [st |-> "ok", val |-> found.some /\ shadow_hit(found, hit(found.xs), distance)]

shadow_ray(w, r, distance) ==
    IF r.st = "panic" THEN {[st |-> "panic", val |-> FALSE]}
    ELSE { shadow_found(found, distance) : found \in World_intersect(w, r) }

shadow_toward(w, point_, v) == shadow_ray(w, Ray_new(point_, normalize(v)), magnitude(v))

is_shadowed(w, point_) == shadow_toward(w, point_, VSub(w.light_source.position, point_))

\* World::shade_hit
shaded(w, comps, in_shadow) ==
    IF in_shadow.st = "panic" THEN [st |-> "panic", color |-> black]
    ELSE [st |-> "ok",
          color |-> lighting(comps.object.material, w.light_source, comps.point,
                             comps.eye_vector, comps.normal_vector, in_shadow.val)]

\* a shade_hit that tests the shadow at the hit point itself
shade_hit_at_point(w, comps) ==
    { shaded(w, comps, in_shadow) : in_shadow \in is_shadowed(w, comps.point) }

shade_hit(w, comps) ==
    { shaded(w, comps, in_shadow) : in_shadow \in is_shadowed(w, comps.over_point) }

\* World::color_at
color_of_hit(w, ray, found, h) ==
    IF h.some
    THEN UNION { shade_hit(w, comps) : comps \in {prepare_computations(found.xs[h.idx], ray)} }
    ELSE {[st |-> "ok", color |-> black]}

color_of_first(w, ray, found) ==
    IF found.some
    THEN UNION { shade_hit(w, comps) : comps \in {prepare_computations(found.xs[1], ray)} }
    ELSE {[st |-> "ok", color |-> black]}

color_of(w, ray, found) ==
    IF found.some THEN color_of_hit(w, ray, found, hit(found.xs))
    ELSE {[st |-> "ok", color |-> black]}

color_at_first(w, ray) == UNION { color_of_first(w, ray, found) : found \in World_intersect(w, ray) }

color_at(w, ray) == UNION { color_of(w, ray, found) : found \in World_intersect(w, ray) }

\* WorldBuilder
WorldBuilder_new == [st |-> "building", objects |-> <<>>, light_source |-> PointLight_default]

with_light_source(b, light_source) == [b EXCEPT !.light_source = light_source]

with_object(b, object) == [b EXCEPT !.objects = Append(b.objects, object)]

WorldBuilder_build(b) ==
    [st |-> "built", objects |-> b.objects, light_source |-> b.light_source]

----------------------------------------------------------------------------
(* The inputs of the matrix operations and of the builders                 *)

\* transforms as the scenes build them, some of them with determinant 0
Transforms ==
    { identity,
      translation(R(2), R(3), R(4)),
      translation(R(-10), R(10), Zero),
      scaling(R(2), R(2), R(2)),
      scaling(Q(1, 2), One, R(3)),
      scaling(R(-1), One, One),
      scaling(Zero, One, One),
      scaling(One, One, Zero),
      shearing(One, Zero, Zero, Zero, Zero, Zero),
      shearing(Zero, R(2), Zero, Zero, One, Zero),
      shearing(One, One, One, One, One, One),
      matrix_mul(translation(R(2), R(3), R(4)), scaling(R(2), R(2), R(2))),
      Matrix_new(4) }

\* the matrices of the tests of matrix.rs
TestMatrices ==
    { <<<<R(-4), R(2), R(-2), R(-3)>>, <<R(9), R(6), R(2), R(6)>>,
        <<Zero, R(-5), One, R(-5)>>, <<Zero, Zero, Zero, Zero>>>>,
      <<<<R(6), R(4), R(4), R(4)>>, <<R(5), R(5), R(7), R(6)>>,
        <<R(4), R(-9), R(3), R(-7)>>, <<R(9), One, R(7), R(-6)>>>>,
      <<<<Zero, R(9), R(3), Zero>>, <<R(9), R(8), Zero, R(8)>>,
        <<One, R(8), R(5), R(3)>>, <<Zero, Zero, R(5), R(8)>>>>,
      <<<<One, R(2), R(3), R(4)>>, <<R(2), R(4), R(6), R(8)>>,
        <<Zero, One, Zero, One>>, <<R(5), Zero, Zero, One>>>> }

Matrices ==
    Transforms \cup TestMatrices \cup { matrix_mul(a, b) : a, b \in Transforms }

Materials ==
    { MaterialBuilder_build(MaterialBuilder_new),
      MaterialBuilder_build(with_ambient(MaterialBuilder_new, One)) }

\* the largest hsize and vsize handed to the CameraBuilder
MaxSize == 3

\* the number of times transpose is applied in a row
MaxTranspose == 2

\* the largest number of objects in a world
MaxObjects == 2

\* the scenes: spheres centred on the line x = -10, y = 10, on which the
\* default light lies, lights on that line, and rays along it and off it
SphereAt(z, r, material) ==
    SphereBuilder_build(
        with_material(
            with_transform(SphereBuilder_new,
                           matrix_mul(translation(R(-10), R(10), z), scaling(r, r, r))),
            material)).obj

Red == MaterialBuilder_build(with_color(MaterialBuilder_new, Color_new(One, Q(1, 5), Q(1, 5))))

Spheres ==
    { SphereAt(Zero, One, MaterialBuilder_build(MaterialBuilder_new)),
      SphereAt(Zero, One, Red),
      SphereAt(R(-7), Q(1, 2), MaterialBuilder_build(MaterialBuilder_new)) }

Lights ==
    { PointLight_new(point(R(-10), R(10), R(-10)), Color_new(Q(1, 2), One, One)),
      PointLight_new(point(R(-10), R(10), R(10)), white) }

Rays ==
    { Ray_new(point(R(-10), R(10), R(-5)), vector(Zero, Zero, One)),
      Ray_new(point(R(-10), R(10), R(-5)), vector(Zero, Zero, R(-1))),
      Ray_new(point(R(-10), R(10), Zero), vector(Zero, Zero, One)),
      Ray_new(point(R(-10), R(10), R(8)), vector(Zero, Zero, One)),
      Ray_new(point(R(-10), R(13), R(-5)), vector(Zero, Zero, One)),
      Ray_new(point(R(-10), R(10), R(-5)), vector(Zero, Zero, Zero)) }

\* the points asked of is_shadowed: before the default light, between the
\* light and the spheres, between the spheres, inside one, behind them, at
\* the light, and off the line of the spheres
Points ==
    { point(R(-10), R(10), R(-12)),
      point(R(-10), R(10), R(-9)),
      point(R(-10), R(10), R(-5)),
      point(R(-10), R(10), Zero),
      point(R(-10), R(10), R(3)),
      point(R(-10), R(10), R(-10)),
      point(R(-10), R(13), R(-6)) }

\* the calls of Material::lighting: materials of a small shininess, solid
\* and striped, lights before, beside and behind the surface, the point in
\* either stripe, the eye before, beside and behind the surface
LightingMaterials ==
    { MaterialBuilder_build(with_shininess(MaterialBuilder_new, R(2))),
      MaterialBuilder_build(
          with_shininess(with_ambient(with_color(MaterialBuilder_new,
                                                 Color_new(One, Q(1, 5), Q(1, 5))), One), One)),
      MaterialBuilder_build(
          with_shininess(with_pattern(MaterialBuilder_new,
                                      StripePattern(white, Color_new(Q(1, 2), Zero, Zero))),
                         R(2))) }

LightingLights ==
    { PointLight_new(point(Zero, Zero, R(-10)), white),
      PointLight_new(point(Zero, Zero, R(-10)), Color_new(Q(1, 2), One, R(2))),
      PointLight_new(point(Zero, R(6), R(-8)), white),
      PointLight_new(point(Zero, Zero, R(10)), white) }

LightingPoints == { point(Zero, Zero, Zero), point(One, Zero, Zero) }

LightingEyes ==
    { vector(Zero, Zero, R(-1)), vector(Zero, Q(-3, 5), Q(-4, 5)), vector(Zero, Zero, One) }

LightingNormals == { vector(Zero, Zero, R(-1)), vector(Zero, Zero, One) }

\* the calls of StripePattern::color_at_point: x about the stripe borders on
\* either side of 0, at the ends of isize and past them
StripePatterns ==
    { StripePattern(white, black),
      StripePattern(Color_new(One, Zero, Zero), Color_new(Zero, Zero, One)) }

StripeXs ==
    { Zero, Q(9, 10), One, Q(3, 2), R(2), Q(5, 2), R(3),
      Q(-1, 10), R(-1), Q(-11, 10), R(-2), Q(-5, 2), R(-3),
      R(2 ^ (IsizeBits - 1) - 1), R(2 ^ (IsizeBits - 1)), R(2 ^ IsizeBits),
      R(-(2 ^ (IsizeBits - 1))), R(-(2 ^ (IsizeBits - 1)) - 2) }

StripeYZs == { Zero, One, Q(-3, 2) }

\* the shapes asked for their intersections and normals: spheres and planes,
\* untransformed, scaled uniformly and not, and translated
SphereTransforms ==
    { identity,
      scaling(R(2), R(2), R(2)),
      translation(Zero, One, Zero),
      scaling(One, Q(1, 2), One) }

PlaneTransforms == { identity, translation(Zero, One, Zero) }

Shapes ==
    { SphereBuilder_build(with_transform(SphereBuilder_new, t)).obj : t \in SphereTransforms }
    \cup { PlaneBuilder_build(with_transform(PlaneBuilder_new, t)).obj : t \in PlaneTransforms }

\* rays through the shapes, tangent to the unit sphere, past it, from inside
\* it and from behind it, along the plane and within it, across it from
\* above and from below, and a ray of direction zero
RayOrigins ==
    { point(Zero, Zero, R(-5)), point(Zero, One, R(-5)), point(Zero, R(2), R(-5)),
      point(Zero, Zero, Zero), point(Zero, Zero, R(5)),
      point(Zero, R(10), Zero), point(Zero, R(-1), Zero) }

RayDirections ==
    { vector(Zero, Zero, One), vector(Zero, Zero, R(2)),
      vector(Zero, R(-1), Zero), vector(Zero, One, Zero), vector(Zero, One, One),
      vector(Zero, Zero, Zero) }

\* directions all but parallel to the plane, on both sides of its EPSILON
ShallowDirections ==
    { vector(Zero, Q(1, 2000), One), vector(Zero, Q(-1, 2000), One),
      vector(Zero, Q(1, 1000), One), vector(Zero, Q(-1, 1000), One) }

ShapeRays(shape) ==
    { Ray_new(o, d) : o \in RayOrigins,
                      d \in IF shape.kind = "plane"
                             THEN RayDirections \cup ShallowDirections
                             ELSE RayDirections }

\* the world points asked for a normal: on the axes, the centres of the
\* spheres, and points off the surfaces
NormalPoints ==
    { point(One, Zero, Zero), point(Zero, Zero, One), point(Zero, One, Zero),
      point(Zero, Zero, Zero), point(R(4), R(4), R(4)), point(Zero, R(3), R(4)),
      point(One, R(2), R(2)) }

\* the cameras compared for their pixel size: the sizes of the renders, the
\* 200 x 125 and 125 x 200 of the tests, and narrow and wide fields of view
CameraSizes == 0..MaxSize \cup {125, 200}

CameraFieldsOfView == FieldsOfView \cup {"2*atan(1/2)", "2*atan(3)"}

CameraTransforms == { identity, translation(R(2), R(3), R(4)) }

\* the t of the intersections prepared: behind the origin of the ray, at it
\* and ahead of it
HitTs == { R(-1), Zero, One, R(4), R(5), R(6) }

\* the rays of those intersections: toward the spheres, from inside them,
\* past them, and one of direction zero
HitRays ==
    { Ray_new(o, d) :
        o \in { point(Zero, Zero, R(-5)), point(Zero, One, R(-5)),
                point(Zero, Zero, Zero), point(Zero, R(-1), Zero) },
        d \in { vector(Zero, Zero, One), vector(Zero, One, One),
                vector(Zero, Zero, Zero) } }

----------------------------------------------------------------------------
(* Initial state                                                           *)

NoHit == [called |-> FALSE, some |-> FALSE, t |-> Zero, object |-> "none"]

InitXs ==
    /\ xs = <<>>
    /\ pushed = <<>>
    /\ hitRes = NoHit

NoRay == [called |-> FALSE, origin |-> NoVector, direction |-> NoVector,
          out |-> [st |-> "none", msg |-> "", origin |-> NoVector, direction |-> NoVector]]

InitRay == rayRes = NoRay

NoInverse == [called |-> FALSE, ok |-> FALSE, m |-> Matrix_new(4)]

NoBool == [called |-> FALSE, val |-> FALSE]

NoMatrix ==
    [set |-> FALSE, orig |-> identity, cur |-> identity, nT |-> 0,
     inv |-> NoInverse, isInv |-> NoBool]

InitMatrix == mat = NoMatrix

NoBuilder == [kind |-> "none"]

NoBuilt == [st |-> "none", obj |-> [kind |-> "none"], kind |-> "none", T |-> identity]

NoQuery == [called |-> FALSE, st |-> "none", m |-> Matrix_new(4)]

NoRender == [called |-> FALSE, checks |-> FALSE, st |-> "none", image |-> <<>>, writes |-> <<>>]

InitBuild ==
    /\ builder = NoBuilder
    /\ built = NoBuilt
    /\ queryRes = NoQuery
    /\ renderRes = NoRender

NoWorldBuilder == [st |-> "none", objects |-> <<>>, light_source |-> PointLight_default]

NoWorld == [st |-> "none", objects |-> <<>>, light_source |-> PointLight_default,
            lightSet |-> FALSE]

NoColor == [called |-> FALSE, ray |-> Ray_new(point(Zero, Zero, Zero), vector(Zero, Zero, Zero)),
            st |-> "none", color |-> black]

InitWorld ==
    /\ wbuilder = [b |-> NoWorldBuilder, lightSet |-> FALSE]
    /\ world = NoWorld
    /\ colorRes = NoColor

NoCall == [fn |-> "none"]

InitCall == call = NoCall

Init == InitXs /\ InitRay /\ InitMatrix /\ InitBuild /\ InitWorld /\ InitCall

----------------------------------------------------------------------------
(* Intersections: push, hit                                                *)

HitValue(s) ==
    LET h == hit(s)
    IN  IF h.some
        THEN [called |-> TRUE, some |-> TRUE, t |-> s[h.idx].t, object |-> s[h.idx].object]
        ELSE [called |-> TRUE, some |-> FALSE, t |-> Zero, object |-> "none"]

\* xs.push(Intersection::new(t, object))
Push ==
    /\ Len(pushed) < MaxLen
    /\ \E t \in TValues, o \in Objects :
         /\ xs' \in push(xs, Intersection_new(t, o))
         /\ pushed' = Append(pushed, Intersection_new(t, o))
    /\ hitRes' = NoHit
    /\ UNCHANGED <<rayVars, matVars, bldVars, worldVars, fnVars>>

\* xs.hit()
Hit ==
    /\ hitRes' = HitValue(xs)
    /\ UNCHANGED <<xs, pushed>>
    /\ UNCHANGED <<rayVars, matVars, bldVars, worldVars, fnVars>>

\* Intersections::default(): a fresh, empty collection
Default ==
    /\ xs # <<>>
    /\ xs' = <<>>
    /\ pushed' = <<>>
    /\ hitRes' = NoHit
    /\ UNCHANGED <<rayVars, matVars, bldVars, worldVars, fnVars>>

NextXs == Push \/ Hit \/ Default

SpecXs == Init /\ [][NextXs]_vars

----------------------------------------------------------------------------
(* Ray::new                                                                *)

\* Ray::new(origin, direction)
RayNew ==
    /\ \E origin \in RayTuples, direction \in RayTuples :
         rayRes' = [called |-> TRUE, origin |-> origin, direction |-> direction,
                    out |-> Ray_new(origin, direction)]
    /\ UNCHANGED <<xsVars, matVars, bldVars, worldVars, fnVars>>

SpecRay == Init /\ [][RayNew]_vars

----------------------------------------------------------------------------
(* Matrix<4>: transpose, is_invertible, try_inverse                        *)

\* Matrix::from(m)
MatrixFrom ==
    /\ \E m \in Matrices :
         mat' = [set |-> TRUE, orig |-> m, cur |-> m, nT |-> 0,
                 inv |-> NoInverse, isInv |-> NoBool]
    /\ UNCHANGED <<xsVars, rayVars, bldVars, worldVars, fnVars>>

\* m = m.transpose()
Transpose ==
    /\ mat.set
    /\ mat.nT < MaxTranspose
    /\ mat' = [mat EXCEPT !.cur = transpose(mat.cur), !.nT = mat.nT + 1,
                          !.inv = NoInverse, !.isInv = NoBool]
    /\ UNCHANGED <<xsVars, rayVars, bldVars, worldVars, fnVars>>

\* m.is_invertible()
IsInvertible ==
    /\ mat.set
    /\ mat' = [mat EXCEPT !.isInv = [called |-> TRUE, val |-> is_invertible(mat.cur)]]
    /\ UNCHANGED <<xsVars, rayVars, bldVars, worldVars, fnVars>>

\* m.try_inverse()
TryInverse ==
    /\ mat.set
    /\ \E r \in {try_inverse(mat.cur)} :
         mat' = [mat EXCEPT !.inv = [called |-> TRUE, ok |-> r.ok, m |-> r.m]]
    /\ UNCHANGED <<xsVars, rayVars, bldVars, worldVars, fnVars>>

NextMatrix == MatrixFrom \/ Transpose \/ IsInvertible \/ TryInverse

SpecMatrix == Init /\ [][NextMatrix]_vars

----------------------------------------------------------------------------
(* The builders: new, with_*, build; Shape::transformation                 *)

SphereBuilderNew ==
    /\ builder' = SphereBuilder_new
    /\ built' = NoBuilt
    /\ queryRes' = NoQuery
    /\ renderRes' = NoRender
    /\ UNCHANGED <<xsVars, rayVars, matVars, worldVars, fnVars>>

PlaneBuilderNew ==
    /\ builder' = PlaneBuilder_new
    /\ built' = NoBuilt
    /\ queryRes' = NoQuery
    /\ renderRes' = NoRender
    /\ UNCHANGED <<xsVars, rayVars, matVars, worldVars, fnVars>>

CameraBuilderNew ==
    /\ builder' = CameraBuilder_new
    /\ built' = NoBuilt
    /\ queryRes' = NoQuery
    /\ renderRes' = NoRender
    /\ UNCHANGED <<xsVars, rayVars, matVars, worldVars, fnVars>>

WithTransform ==
    /\ builder.kind # "none"
    /\ \E m \in Transforms : builder' = with_transform(builder, m)
    /\ UNCHANGED <<built, queryRes, renderRes>>
    /\ UNCHANGED <<xsVars, rayVars, matVars, worldVars, fnVars>>

WithMaterial ==
    /\ builder.kind \in {"sphere", "plane"}
    /\ \E m \in Materials : builder' = with_material(builder, m)
    /\ UNCHANGED <<built, queryRes, renderRes>>
    /\ UNCHANGED <<xsVars, rayVars, matVars, worldVars, fnVars>>

WithHsize ==
    /\ builder.kind = "camera"
    /\ \E n \in 0..MaxSize : builder' = with_hsize(builder, n)
    /\ UNCHANGED <<built, queryRes, renderRes>>
    /\ UNCHANGED <<xsVars, rayVars, matVars, worldVars, fnVars>>

WithVsize ==
    /\ builder.kind = "camera"
    /\ \E n \in 0..MaxSize : builder' = with_vsize(builder, n)
    /\ UNCHANGED <<built, queryRes, renderRes>>
    /\ UNCHANGED <<xsVars, rayVars, matVars, worldVars, fnVars>>

WithFieldOfView ==
    /\ builder.kind = "camera"
    /\ \E f \in FieldsOfView : builder' = with_field_of_view(builder, f)
    /\ UNCHANGED <<built, queryRes, renderRes>>
    /\ UNCHANGED <<xsVars, rayVars, matVars, worldVars, fnVars>>

\* build(self): the builder is consumed; T records the transform it held
Build ==
    /\ builder.kind # "none"
    /\ \E out \in { CASE builder.kind = "sphere" -> SphereBuilder_build(builder)
                      [] builder.kind = "plane" -> PlaneBuilder_build(builder)
                      [] OTHER -> CameraBuilder_build(builder) } :
         built' = [st |-> out.st, obj |-> out.obj, kind |-> builder.kind,
                   T |-> builder.transform]
    /\ builder' = NoBuilder
    /\ queryRes' = NoQuery
    /\ renderRes' = NoRender
    /\ UNCHANGED <<xsVars, rayVars, matVars, worldVars, fnVars>>

\* shape.transformation()
Transformation ==
    /\ built.st = "ok"
    /\ built.kind \in {"sphere", "plane"}
    /\ \E r \in {transformation(built.obj)} :
         queryRes' = [called |-> TRUE, st |-> r.st, m |-> r.m]
    /\ UNCHANGED <<builder, built, renderRes>>
    /\ UNCHANGED <<xsVars, rayVars, matVars, worldVars, fnVars>>

NextBuild ==
    \/ SphereBuilderNew \/ PlaneBuilderNew \/ CameraBuilderNew
    \/ WithTransform \/ WithMaterial \/ WithHsize \/ WithVsize \/ WithFieldOfView
    \/ Build \/ Transformation

SpecBuild == Init /\ [][NextBuild]_vars

\* camera.render(&world), in a build with overflow checks or without
Render ==
    /\ built.st = "ok"
    /\ built.kind = "camera"
    /\ \E checks \in BOOLEAN :
         \E out \in {render(built.obj, checks)} :
           renderRes' = [called |-> TRUE, checks |-> checks, st |-> out.st,
                         image |-> out.image, writes |-> out.writes]
    /\ UNCHANGED <<builder, built, queryRes>>
    /\ UNCHANGED <<xsVars, rayVars, matVars, worldVars, fnVars>>

NextCamera ==
    \/ CameraBuilderNew
    \/ WithTransform \/ WithHsize \/ WithVsize \/ WithFieldOfView
    \/ Build \/ Render

SpecCamera == Init /\ [][NextCamera]_vars

----------------------------------------------------------------------------
(* WorldBuilder: new, with_light_source, with_object, build; color_at      *)

\* WorldBuilder::new(); lightSet records whether with_light_source was called
WorldBuilderNew ==
    /\ wbuilder' = [b |-> WorldBuilder_new, lightSet |-> FALSE]
    /\ world' = NoWorld
    /\ colorRes' = NoColor
    /\ call' = NoCall
    /\ UNCHANGED <<xsVars, rayVars, matVars, bldVars>>

WithLightSource ==
    /\ wbuilder.b.st = "building"
    /\ \E l \in Lights : wbuilder' = [b |-> with_light_source(wbuilder.b, l), lightSet |-> TRUE]
    /\ UNCHANGED <<world, colorRes>>
    /\ UNCHANGED <<xsVars, rayVars, matVars, bldVars, fnVars>>

\* with_object takes the sphere by value: a sphere enters the world once
WithObject ==
    /\ wbuilder.b.st = "building"
    /\ Len(wbuilder.b.objects) < MaxObjects
    /\ \E o \in Spheres :
         /\ \A k \in 1..Len(wbuilder.b.objects) : wbuilder.b.objects[k] # o
         /\ wbuilder' = [wbuilder EXCEPT !.b = with_object(wbuilder.b, o)]
    /\ UNCHANGED <<world, colorRes>>
    /\ UNCHANGED <<xsVars, rayVars, matVars, bldVars, fnVars>>

WorldBuild ==
    /\ wbuilder.b.st = "building"
    /\ \E w \in {WorldBuilder_build(wbuilder.b)} :
         world' = [st |-> w.st, objects |-> w.objects, light_source |-> w.light_source,
                   lightSet |-> wbuilder.lightSet]
    /\ wbuilder' = [b |-> NoWorldBuilder, lightSet |-> FALSE]
    /\ colorRes' = NoColor
    /\ call' = NoCall
    /\ UNCHANGED <<xsVars, rayVars, matVars, bldVars>>

\* world.color_at(&ray)
ColorAt ==
    /\ world.st = "built"
    /\ \E ray \in Rays :
         \E out \in color_at(world, ray) :
           colorRes' = [called |-> TRUE, ray |-> ray, st |-> out.st, color |-> out.color]
    /\ UNCHANGED <<wbuilder, world>>
    /\ UNCHANGED <<xsVars, rayVars, matVars, bldVars, fnVars>>

\* world.is_shadowed(&point)
IsShadowed ==
    /\ world.st = "built"
    /\ \E p \in Points :
         \E out \in is_shadowed(world, p) :
           call' = [fn |-> "is_shadowed", point |-> p, st |-> out.st, out |-> out.val]
    /\ UNCHANGED <<wbuilder, world, colorRes>>
    /\ UNCHANGED <<xsVars, rayVars, matVars, bldVars>>

\* world.intersect(&ray), on a world as built: intersect takes &self and
\* leaves the world as it is, so a later query returns what the first would
WorldIntersect ==
    /\ world.st = "built"
    /\ call = NoCall
    /\ \E ray \in Rays :
         \E out \in World_intersect(world, ray) :
           call' = [fn |-> "World::intersect", ray |-> ray, some |-> out.some,
                    out |-> out.xs]
    /\ UNCHANGED <<wbuilder, world, colorRes>>
    /\ UNCHANGED <<xsVars, rayVars, matVars, bldVars>>

NextQuery == WorldBuilderNew \/ WithLightSource \/ WithObject \/ WorldBuild \/ IsShadowed

SpecQuery == Init /\ [][NextQuery]_vars

NextIntersect ==
    WorldBuilderNew \/ WithLightSource \/ WithObject \/ WorldBuild \/ WorldIntersect

SpecIntersect == Init /\ [][NextIntersect]_vars

NextWorld == WorldBuilderNew \/ WithLightSource \/ WithObject \/ WorldBuild \/ ColorAt

SpecWorld == Init /\ [][NextWorld]_vars

----------------------------------------------------------------------------
(* Material::lighting                                                      *)

Lighting ==
    /\ \E material \in LightingMaterials, light \in LightingLights, p \in LightingPoints,
          eye_vector \in LightingEyes, normal_vector \in LightingNormals, in_shadow \in BOOLEAN :
         call' = [fn |-> "lighting", material |-> material, light |-> light, point |-> p,
                  eye_vector |-> eye_vector, normal_vector |-> normal_vector,
                  in_shadow |-> in_shadow,
                  out |-> lighting(material, light, p, eye_vector, normal_vector, in_shadow)]
    /\ UNCHANGED <<xsVars, rayVars, matVars, bldVars, worldVars>>

SpecLighting == Init /\ [][Lighting]_vars

----------------------------------------------------------------------------
(* StripePattern::color_at_point                                           *)

ColorAtPoint ==
    /\ \E pattern \in StripePatterns, x \in StripeXs, y \in StripeYZs, z \in StripeYZs :
         call' = [fn |-> "color_at_point", pattern |-> pattern, point |-> point(x, y, z),
                  out |-> color_at_point(pattern, point(x, y, z))]
    /\ UNCHANGED <<xsVars, rayVars, matVars, bldVars, worldVars>>

SpecStripe == Init /\ [][ColorAtPoint]_vars

----------------------------------------------------------------------------
(* Shape::intersect and Shape::normal_at                                   *)

Intersect ==
    /\ \E shape \in Shapes : \E ray \in ShapeRays(shape) :
         call' = [fn |-> "intersect", shape |-> shape, ray |-> ray,
                  out |-> intersect(shape, ray)]
    /\ UNCHANGED <<xsVars, rayVars, matVars, bldVars, worldVars>>

NormalAt ==
    /\ \E shape \in Shapes, world_point \in NormalPoints :
         call' = [fn |-> "normal_at", shape |-> shape, point |-> world_point,
                  out |-> normal_at(shape, world_point)]
    /\ UNCHANGED <<xsVars, rayVars, matVars, bldVars, worldVars>>

NextShape == Intersect \/ NormalAt

SpecShape == Init /\ [][NextShape]_vars

----------------------------------------------------------------------------
(* Intersection::prepare_computations                                      *)

\* Intersection::new(t, sphere).prepare_computations(&ray)
PrepareComputations ==
    /\ \E shape \in { o \in Shapes : o.kind = "sphere" }, t \in HitTs, ray \in HitRays :
         call' = [fn |-> "prepare_computations", i |-> Intersection_new(t, shape),
                  ray |-> ray,
                  out |-> prepare_computations(Intersection_new(t, shape), ray)]
    /\ UNCHANGED <<xsVars, rayVars, matVars, bldVars, worldVars>>

SpecPrepare == Init /\ [][PrepareComputations]_vars

----------------------------------------------------------------------------
(* CameraBuilder: a camera of hsize x vsize and one of vsize x hsize       *)

CameraOf(hsize, vsize, field_of_view, transform) ==
    CameraBuilder_build(
        with_transform(
            with_field_of_view(with_vsize(with_hsize(CameraBuilder_new, hsize), vsize),
                               field_of_view),
            transform))

\* the sizes, field of view and transform handed to the two builders
InitPixel ==
    /\ InitXs /\ InitRay /\ InitMatrix /\ InitBuild /\ InitWorld
    /\ \E hsize \in CameraSizes, vsize \in CameraSizes,
          field_of_view \in CameraFieldsOfView, transform \in CameraTransforms :
         call = [fn |-> "sizes", hsize |-> hsize, vsize |-> vsize,
                 field_of_view |-> field_of_view, transform |-> transform]

CameraPair ==
    /\ call.fn = "sizes"
    /\ call' = [fn |-> "camera_pair", hsize |-> call.hsize, vsize |-> call.vsize,
                field_of_view |-> call.field_of_view,
                out |-> CameraOf(call.hsize, call.vsize, call.field_of_view,
                                 call.transform).obj,
                turned |-> CameraOf(call.vsize, call.hsize, call.field_of_view,
                                    call.transform).obj]
    /\ UNCHANGED <<xsVars, rayVars, matVars, bldVars, worldVars>>

SpecPixel == InitPixel /\ [][CameraPair]_vars

----------------------------------------------------------------------------
(* Canvas::save on a painted canvas and a writer                           *)

MaxWidth == 7

MaxHeight == 2

MaxFail == 5

\* colours of the tests of canvas.rs, and one of ten characters
SaveColors ==
    { white, Color_new(One, One, Q(1, 5)), Color_new(Q(-1, 2), Q(1, 2), Q(3, 2)) }

\* the canvas after write_pixel of every pixel: first in the columns 0 to 4,
\* sixth in the column 5, rest in the others
Painted(w, h, first, sixth, rest) ==
    Tuple([y \in 1..h |->
        Tuple([x \in 1..w |-> IF x <= 5 THEN first ELSE IF x = 6 THEN sixth ELSE rest])])

Writers == [fail_at : 0..MaxFail, short : BOOLEAN]

InitSave ==
    /\ InitXs /\ InitRay /\ InitMatrix /\ InitBuild /\ InitWorld
    /\ \E w \in 0..MaxWidth, h \in 0..MaxHeight, first \in SaveColors,
          sixth \in SaveColors, rest \in SaveColors, writer \in Writers :
         call = [fn |-> "canvas", canvas |-> Painted(w, h, first, sixth, rest),
                 writer |-> writer]

Save ==
    /\ call.fn = "canvas"
    /\ call' = [fn |-> "save", canvas |-> call.canvas, writer |-> call.writer,
                out |-> save(call.canvas, call.writer)]
    /\ UNCHANGED <<xsVars, rayVars, matVars, bldVars, worldVars>>

SpecSave == InitSave /\ [][Save]_vars

----------------------------------------------------------------------------
(* A canvas under Canvas::new and write_pixel                              *)

MaxSide == 2

PaintColors == { white, black }

\* Canvas::new, then any write_pixel: the canvas, the size it was made with,
\* and for each pixel written so far the colour of its last write
CanvasNew ==
    /\ call = NoCall
    /\ \E w \in 0..MaxSide, h \in 0..MaxSide :
         call' = [fn |-> "Canvas::new", st |-> "ok", canvas |-> Canvas_new(w, h),
                  w |-> w, h |-> h, last |-> <<>>]
    /\ UNCHANGED <<xsVars, rayVars, matVars, bldVars, worldVars>>

WritePixel ==
    /\ call.fn \in {"Canvas::new", "write_pixel"}
    /\ call.st = "ok"
    /\ \E x \in 0..MaxSide, y \in 0..MaxSide, color \in PaintColors :
         call' = IF in_bounds(call.canvas, x, y)
                 THEN [call EXCEPT !.fn = "write_pixel",
                                   !.canvas = write_pixel(call.canvas, x, y, color),
                                   !.last = [p \in DOMAIN call.last \cup {<<x, y>>} |->
                                               IF p = <<x, y>> THEN color
                                               ELSE call.last[p]]]
                 ELSE [call EXCEPT !.fn = "write_pixel", !.st = "panic"]
    /\ UNCHANGED <<xsVars, rayVars, matVars, bldVars, worldVars>>

NextCanvas == CanvasNew \/ WritePixel

SpecCanvas == Init /\ [][NextCanvas]_vars

----------------------------------------------------------------------------
(* == on two shapes built apart                                            *)

\* transforms one tolerance apart in themselves or in their inverses
EqTransforms ==
    { identity, scaling(R(40), One, One), scaling(R(41), One, One),
      scaling(Q(1, 40), One, One), scaling(Q(1, 41), One, One) }

\* a material of NaN ambient is equal to no material
EqMaterials ==
    { MaterialBuilder_build(MaterialBuilder_new),
      MaterialBuilder_build(with_ambient(MaterialBuilder_new, Q(1, 2))),
      MaterialBuilder_build(with_color(MaterialBuilder_new, Color_new(One, Zero, Zero))),
      MaterialBuilder_build(with_ambient(MaterialBuilder_new, NaN)) }

BuiltShape(kind, transform, material) ==
    IF kind = "sphere"
    THEN SphereBuilder_build(with_material(with_transform(SphereBuilder_new, transform),
                                           material)).obj
    ELSE PlaneBuilder_build(with_material(with_transform(PlaneBuilder_new, transform),
                                          material)).obj

ShapeInputs == {"sphere", "plane"} \X EqTransforms \X EqMaterials

InitEq ==
    /\ InitXs /\ InitRay /\ InitMatrix /\ InitBuild /\ InitWorld
    /\ \E a \in ShapeInputs, b \in ShapeInputs :
         call = [fn |-> "shapes", a |-> a, b |-> b]

ShapeEq ==
    /\ call.fn = "shapes"
    /\ call' = [fn |-> "shape_eq", a |-> call.a, b |-> call.b,
                out |-> Shape_eq(BuiltShape(call.a[1], call.a[2], call.a[3]),
                                 BuiltShape(call.b[1], call.b[2], call.b[3]))]
    /\ UNCHANGED <<xsVars, rayVars, matVars, bldVars, worldVars>>

SpecEq == InitEq /\ [][ShapeEq]_vars

----------------------------------------------------------------------------
(* Ray::transform on a ray that Ray::new returned                          *)

\* the rays Ray::new returns for the tuples of RayTuples and of the tests
ConstructedRays ==
    { [origin |-> r.origin, direction |-> r.direction] :
        r \in { out \in { Ray_new(origin, direction) :
                            origin \in RayTuples \cup {point(One, R(2), R(3))},
                            direction \in RayTuples \cup {vector(Zero, One, Zero)} } :
                  out.st = "ok" } }

Offsets == { <<R(3), R(4), R(5)>>, <<Zero, Zero, Zero>>, <<R(5), R(-3), R(2)>> }

TransformMatrices ==
    { translation(o[1], o[2], o[3]) : o \in Offsets }
    \cup { scaling(R(2), R(3), R(4)), shearing(One, Zero, Zero, Zero, Zero, Zero) }

InitTransform ==
    /\ InitXs /\ InitRay /\ InitMatrix /\ InitBuild /\ InitWorld
    /\ \E ray \in ConstructedRays, m \in TransformMatrices :
         call = [fn |-> "ray", ray |-> ray, m |-> m]

\* transform takes &self: the ray it was called on is the same afterwards
RayTransform ==
    /\ call.fn = "ray"
    /\ call' = [fn |-> "transform", ray |-> call.ray, m |-> call.m,
                out |-> Ray_transform(call.ray, call.m)]
    /\ UNCHANGED <<xsVars, rayVars, matVars, bldVars, worldVars>>

SpecTransform == InitTransform /\ [][RayTransform]_vars

----------------------------------------------------------------------------
(* World::shade_hit on the computations of an intersection of the world    *)

\* shade_hit(comps) for the computations prepared from any intersection, the
\* hit or another, of a ray with the objects of the world
ShadeHit ==
    /\ world.st = "built"
    /\ call = NoCall
    /\ \E ray \in Rays :
         \E found \in World_intersect(world, ray) :
           /\ found.some
           /\ \E k \in 1..Len(found.xs) :
                \E comps \in {prepare_computations(found.xs[k], ray)} :
                  \E out \in shade_hit(world, comps) :
                    call' = [fn |-> "shade_hit", ray |-> ray, comps |-> comps,
                             st |-> out.st, out |-> out.color]
    /\ UNCHANGED <<wbuilder, world, colorRes>>
    /\ UNCHANGED <<xsVars, rayVars, matVars, bldVars>>

NextShade == WorldBuilderNew \/ WithLightSource \/ WithObject \/ WorldBuild \/ ShadeHit

SpecShade == Init /\ [][NextShade]_vars

----------------------------------------------------------------------------
(* Claims                                                                  *)

NonDecreasing(s) == \A k \in 1..(Len(s) - 1) : RLe(s[k].t, s[k + 1].t)

NoNaNPushed == \A k \in 1..Len(pushed) : ~IsNaN(pushed[k].t)

\* C1 (as claimed): after any sequence of push calls, with any t values in any
\* order, the t values read at indices 0..len-1 are non-decreasing.
C1_SortedForAnyT == NonDecreasing(xs)

\* C1 (amended): after any sequence of push calls whose t values are all numbers
\* (none is NaN), in any order, the t values read at indices 0..len-1 are
\* non-decreasing.
C1_SortedForNumbers == NoNaNPushed => NonDecreasing(xs)

\* three numbers were pushed in descending order and the sort reordered them
C1_Witness ==
    /\ Len(xs) = 3
    /\ NoNaNPushed
    /\ RGt(pushed[1].t, pushed[2].t)
    /\ RGt(pushed[2].t, pushed[3].t)
    /\ xs # pushed

NonNegative(s) == { k \in 1..Len(s) : RGe(s[k].t, Zero) }

HitIsNearest ==
    hitRes.called =>
        /\ hitRes.some =>
             /\ \E k \in NonNegative(xs) : xs[k].t = hitRes.t /\ xs[k].object = hitRes.object
             /\ \A k \in NonNegative(xs) : RLe(hitRes.t, xs[k].t)
        /\ ~hitRes.some <=> (xs = <<>> \/ \A k \in 1..Len(xs) : RLt(xs[k].t, Zero))

\* C2 (as claimed): for any collection built by pushes in any order, hit()
\* returns an intersection whose t is the minimum of the stored t that are >= 0
\* (t = 0 counts), and returns None exactly when the collection is empty or
\* every stored t is negative.
C2_HitForAnyT == HitIsNearest

\* C2 (amended): the same, for collections built by pushes of t values none of
\* which is NaN.
C2_HitForNumbers == NoNaNPushed => HitIsNearest

\* hit() returned the intersection at t = 0 from a collection that also holds a
\* negative and a larger positive t, pushed with the positive one first
C2_Witness ==
    /\ hitRes.called
    /\ hitRes.some
    /\ hitRes.t = Zero
    /\ Len(xs) = 3
    /\ NoNaNPushed
    /\ RGt(pushed[1].t, Zero)
    /\ \E k \in 1..3 : RLt(xs[k].t, Zero)

\* C3: Ray::new yields a Ray only when origin.w = 1 and direction.w = 0; an
\* origin with any other w panics with "Origin must be a point", a direction
\* with any other w panics with "Direction must be a vector"; no Ray with an
\* ill-typed origin or direction is ever constructed.
C3_RayNewTyped ==
    rayRes.called =>
        /\ rayRes.out.st = "ok" => (rayRes.origin[4] = One /\ rayRes.direction[4] = Zero)
        /\ rayRes.origin[4] # One =>
             (rayRes.out.st = "panic" /\ rayRes.out.msg = "Origin must be a point")
        /\ (rayRes.origin[4] = One /\ rayRes.direction[4] # Zero) =>
             (rayRes.out.st = "panic" /\ rayRes.out.msg = "Direction must be a vector")

\* the determinant by the Leibniz formula: the sum over the permutations p of
\* sign(p) * m[1][p[1]] * m[2][p[2]] * m[3][p[3]] * m[4][p[4]]
Perms == { p \in [1..4 -> 1..4] : \A i, j \in 1..4 : p[i] = p[j] => i = j }

Sign(p) ==
    IF Cardinality({ ij \in (1..4) \X (1..4) : ij[1] < ij[2] /\ p[ij[1]] > p[ij[2]] }) % 2 = 0
    THEN One ELSE R(-1)

LeibnizTerm(m, p) ==
    RMul(Sign(p), RMul(RMul(m[1][p[1]], m[2][p[2]]), RMul(m[3][p[3]], m[4][p[4]])))

RECURSIVE LeibnizSum(_, _)
LeibnizSum(m, ps) ==
    IF ps = {} THEN Zero
    ELSE LET p == CHOOSE q \in ps : TRUE
         IN  RAdd(LeibnizTerm(m, p), LeibnizSum(m, ps \ {p}))

Det(m) == LeibnizSum(m, Perms)

IsInverseOf(a, b) == matrix_mul(a, b) = identity /\ matrix_mul(b, a) = identity

\* C4: try_inverse returns Err(NonInvertibleError) exactly when the determinant
\* of the matrix is 0 and Ok(inverse) otherwise, the Ok value being the inverse;
\* is_invertible() is true exactly in the Ok case.
C4_InverseIffDeterminant ==
    /\ mat.inv.called =>
         /\ ~mat.inv.ok <=> Det(mat.cur) = Zero
         /\ mat.inv.ok => IsInverseOf(mat.inv.m, mat.cur)
    /\ mat.isInv.called => (mat.isInv.val <=> Det(mat.cur) # Zero)
    /\ (mat.inv.called /\ mat.isInv.called) => (mat.isInv.val <=> mat.inv.ok)

C4_Witness ==
    /\ mat.inv.called
    /\ mat.isInv.called
    /\ ~mat.inv.ok
    /\ \A r \in 1..3 : \E c \in 1..4 : mat.cur[r][c] # Zero

\* C7: transpose(transpose(M)) equals M entry for entry, and
\* transpose(M)[r][c] = M[c][r] for all r, c in 0..3.
C7_TransposeInvolution ==
    mat.set =>
        /\ mat.nT % 2 = 0 => mat.cur = mat.orig
        /\ mat.nT % 2 = 1 =>
             \A r \in 0..3, c \in 0..3 : At(mat.cur, r, c) = At(mat.orig, c, r)

C7_Witness ==
    /\ mat.set
    /\ mat.nT = 2
    /\ \E r \in 0..3, c \in 0..3 : At(mat.orig, r, c) # At(mat.orig, c, r)

\* C5: build called on a SphereBuilder, PlaneBuilder or CameraBuilder whose
\* transform has determinant 0 panics and yields no shape or camera; no build
\* yields an object whose inv_transform is anything but the inverse of the
\* transform given.
C5_BuildPanicsOnSingular ==
    built.st # "none" =>
        /\ Det(built.T) = Zero => (built.st = "panic" /\ built.obj = [kind |-> "none"])
        /\ built.st = "ok" => IsInverseOf(built.obj.inv_transform, built.T)

C5_Witness ==
    /\ built.st = "panic"
    /\ built.kind = "camera"
    /\ built.T # Matrix_new(4)
    /\ Det(built.T) = Zero

Writes(x, y) == Cardinality({ k \in 1..Len(renderRes.writes) : renderRes.writes[k] = <<x, y>> })

\* C8: when render returns, the canvas has vsize rows of hsize pixels; every
\* pixel (x, y) with x < hsize - 1 and y < vsize - 1 was written exactly once
\* and holds world.color_at(ray_for_pixel(x, y)); every pixel of the last
\* column and of the last row was never written and is black.
C8_RenderedPixels ==
    (renderRes.called /\ renderRes.st = "ok") =>
        /\ Len(renderRes.image) = built.obj.vsize
        /\ \A y \in 0..(built.obj.vsize - 1) :
             /\ Len(renderRes.image[y + 1]) = built.obj.hsize
             /\ \A x \in 0..(built.obj.hsize - 1) :
                  IF x < built.obj.hsize - 1 /\ y < built.obj.vsize - 1
                  THEN /\ Writes(x, y) = 1
                       /\ pixel_at(renderRes.image, x, y)
                            = color_at_of(ray_for_pixel(built.obj, x, y))
                  ELSE /\ Writes(x, y) = 0
                       /\ pixel_at(renderRes.image, x, y) = black

C8_Witness ==
    /\ renderRes.called
    /\ renderRes.st = "ok"
    /\ built.obj.hsize = 3
    /\ built.obj.vsize = 2
    /\ Len(renderRes.writes) = 2
    /\ pixel_at(renderRes.image, 0, 0) # pixel_at(renderRes.image, 1, 0)
    /\ pixel_at(renderRes.image, 2, 0) = black
    /\ built.T # identity

\* the intersections of the ray of the last color_at with the objects of the
\* world, those of them not behind the origin, and the nearest of those
Tagged == all_intersections(world.objects, colorRes.ray, 1)

Ahead == { k \in 1..Len(Tagged) : RGe(Tagged[k].t, Zero) }

Nearest == { k \in Ahead : \A j \in Ahead : RLe(Tagged[k].t, Tagged[j].t) }

ShadedFrom(k) ==
    { out.color : out \in shade_hit(world, prepare_computations(Tagged[k], colorRes.ray)) }

\* C9: color_at returns black when no intersection of the ray has t >= 0
\* (none at all, or all behind the origin), and otherwise the shade_hit of
\* the computations prepared from a nearest intersection with t >= 0.
C9_ColorAtShadesNearestHit ==
    (colorRes.called /\ colorRes.st = "ok") =>
        IF Ahead = {} THEN colorRes.color = black
        ELSE \E k \in Nearest : colorRes.color \in ShadedFrom(k)

\* color_at has shaded a hit of a ray that also has an intersection behind
\* its origin, and the two shade differently
C9_Witness ==
    /\ colorRes.called
    /\ colorRes.st = "ok"
    /\ Ahead # {}
    /\ \E k \in 1..Len(Tagged) : k \notin Ahead /\ colorRes.color \notin ShadedFrom(k)

\* C10 as stated: in a world for which no light was set, color_at returns
\* black for every ray.
C10_NoLightIsBlack ==
    (colorRes.called /\ ~world.lightSet) => colorRes.color = black

\* the colour of the k-th intersection under the white light at (-10, 10, -10)
LitByDefault(k, in_shadow) ==
    lighting(Tagged[k].object.material,
             PointLight_new(point(R(-10), R(10), R(-10)), white),
             position(colorRes.ray, Tagged[k].t),
             VNeg(colorRes.ray.direction),
             prepare_computations(Tagged[k], colorRes.ray).normal_vector,
             in_shadow)

\* C10, amended: a world built without with_light_source is not an error and
\* holds the white light at (-10, 10, -10); color_at returns black in it for
\* a ray with no hit, and the hit lit by that light, shadowed or not, for a
\* ray with one.
C10_NoLightIsDefaultLight ==
    (world.st = "built" /\ ~world.lightSet) =>
        /\ world.light_source = PointLight_new(point(R(-10), R(10), R(-10)), white)
        /\ colorRes.called =>
             /\ colorRes.st = "ok"
             /\ IF Ahead = {} THEN colorRes.color = black
                ELSE \E k \in Nearest, in_shadow \in BOOLEAN :
                       colorRes.color = LitByDefault(k, in_shadow)

\* color_at has shaded a hit, and not black, in a world built with no light set
C10_Witness ==
    /\ colorRes.called
    /\ ~world.lightSet
    /\ Ahead # {}
    /\ colorRes.color # black

\* the ray of the last is_shadowed, from the point toward the light, the
\* distance to the light, and the intersections of the ray with the objects
ToLight == VSub(world.light_source.position, call.point)

ShadowRay == Ray_new(call.point, normalize(ToLight))

OnShadowRay == all_intersections(world.objects, ShadowRay, 1)

AheadOnShadowRay == { k \in 1..Len(OnShadowRay) : RGe(OnShadowRay[k].t, Zero) }

\* C11: is_shadowed(p) is true exactly when the nearest intersection with
\* t >= 0 of the ray from p toward the light has t less than the distance
\* from p to the light: exactly when some intersection lies on the segment.
C11_ShadowedIffHitBeforeLight ==
    (call.fn = "is_shadowed" /\ call.st = "ok") =>
        /\ call.out <=>
             \E k \in AheadOnShadowRay :
               /\ \A j \in AheadOnShadowRay : RLe(OnShadowRay[k].t, OnShadowRay[j].t)
               /\ RLt(OnShadowRay[k].t, magnitude(ToLight))
        /\ call.out <=>
             \E k \in 1..Len(OnShadowRay) :
               RGe(OnShadowRay[k].t, Zero) /\ RLt(OnShadowRay[k].t, magnitude(ToLight))

\* is_shadowed has answered false for a point whose ray toward the light
\* meets objects, all of them beyond the light
C11_Witness ==
    /\ call.fn = "is_shadowed"
    /\ call.st = "ok"
    /\ ~call.out
    /\ Len(OnShadowRay) > 0
    /\ \A k \in 1..Len(OnShadowRay) : RGt(OnShadowRay[k].t, magnitude(ToLight))

\* of the last call of lighting: the colour of the pattern at the point, the
\* channel c of the effective colour, the vector to the light, the cosines
PatternColor ==
    IF call.material.pattern.kind = "stripe" /\ call.point[1] = One
    THEN call.material.pattern.color2
    ELSE call.material.pattern.color1

Effective(c) == RMul(PatternColor[c], call.light.intensity[c])

LightVector == normalize(VSub(call.light.position, call.point))

LightDotNormal == dot(LightVector, call.normal_vector)

ReflectDotEye == dot(reflect(VNeg(LightVector), call.normal_vector), call.eye_vector)

\* C12: lighting with in_shadow = true returns the ambient term, pattern
\* colour at the point x light intensity x material.ambient, whatever the
\* light position, the eye and the normal.
C12_ShadowIsAmbient ==
    (call.fn = "lighting" /\ call.in_shadow) =>
        \A c \in 1..3 : call.out[c] = RMul(Effective(c), call.material.ambient)

\* lighting has returned the ambient term for a shadowed point that the
\* light would have lit
C12_Witness ==
    /\ call.fn = "lighting"
    /\ call.in_shadow
    /\ RGt(LightDotNormal, Zero)
    /\ RGt(ReflectDotEye, Zero)
    /\ call.out # black

Diffuse(c) ==
    IF RLt(LightDotNormal, Zero) THEN Zero
    ELSE RMul(RMul(Effective(c), call.material.diffuse), LightDotNormal)

Specular(c) ==
    IF RLt(LightDotNormal, Zero) \/ RLe(ReflectDotEye, Zero) THEN Zero
    ELSE RMul(RMul(call.light.intensity[c], call.material.specular),
              RPow(ReflectDotEye, call.material.shininess[1]))

\* C13: lighting with in_shadow = false returns ambient + diffuse + specular
\* per channel, unclamped; diffuse and specular are black when the light is
\* behind the surface and specular is black when the reflection is not
\* toward the eye.
C13_AmbientDiffuseSpecular ==
    (call.fn = "lighting" /\ ~call.in_shadow) =>
        \A c \in 1..3 :
            call.out[c] = RAdd(RAdd(RMul(Effective(c), call.material.ambient), Diffuse(c)),
                               Specular(c))

\* lighting has returned a channel above 1
C13_Witness ==
    /\ call.fn = "lighting"
    /\ ~call.in_shadow
    /\ RGt(ReflectDotEye, Zero)
    /\ \E c \in 1..3 : RGt(call.out[c], One)

\* the largest whole number not above the x of the last color_at_point
FloorX == call.point[1][1] \div call.point[1][2]

\* C14: StripePattern(color1, color2).color_at_point(p) is color1 when
\* floor(p.x) is even and color2 when it is odd, for negative x as well,
\* whatever p.y and p.z.
C14_StripeByFloorParity ==
    call.fn = "color_at_point" =>
        call.out = IF FloorX % 2 = 0 THEN call.pattern.color1 ELSE call.pattern.color2

\* the ray of the call in the space of the shape, and the quadratic of the
\* unit sphere along it
LocalOrigin == matrix_mul_vec(call.shape.inv_transform, call.ray.origin)
LocalDirection == matrix_mul_vec(call.shape.inv_transform, call.ray.direction)
FromCentre == <<LocalOrigin[1], LocalOrigin[2], LocalOrigin[3], Zero>>
QuadA == dot(LocalDirection, LocalDirection)
QuadB == RMul(R(2), dot(LocalDirection, FromCentre))
QuadC == RSub(dot(FromCentre, FromCentre), One)
Discriminant == RSub(RMul(QuadB, QuadB), RMul(R(4), RMul(QuadA, QuadC)))
SphereIntersect == call.fn = "intersect" /\ call.shape.kind = "sphere"

\* what C15 says of the values returned
TwoRootsOrNone ==
    IF RLt(Discriminant, Zero) THEN call.out = <<>>
    ELSE /\ Len(call.out) = 2
         /\ RLe(call.out[1], call.out[2])
         /\ (Discriminant = Zero => REq(call.out[1], call.out[2]))
         /\ (RLt(QuadC, Zero) => RLe(call.out[1], Zero) /\ RLe(Zero, call.out[2]))
         /\ (RGt(QuadC, Zero) /\ RGt(QuadB, Zero) =>
                RLt(call.out[1], Zero) /\ RLt(call.out[2], Zero))

PlaneIntersect ==
    call.fn = "intersect" /\ call.shape.kind = "plane" /\ call.shape.inv_transform = identity

\* C16: Plane::intersect on an untransformed plane returns no value when
\* |direction.y| < EPSILON, for a ray parallel to the plane and for a ray
\* within it alike, and otherwise exactly one value, t = -origin.y /
\* direction.y, at which the ray is on the plane, from above and from below
C16_PlaneOneRootOrNone ==
    PlaneIntersect =>
        IF RLt(RAbs(call.ray.direction[2]), Plane_EPSILON) THEN call.out = <<>>
        ELSE /\ call.out = << RDiv(RNeg(call.ray.origin[2]), call.ray.direction[2]) >>
             /\ position(call.ray, call.out[1])[2] = Zero

\* a ray from below the plane, rising at the smallest slope that is not
\* parallel
C16_Witness ==
    /\ PlaneIntersect /\ Len(call.out) = 1
    /\ RLt(call.ray.origin[2], Zero) /\ call.ray.direction[2] = Plane_EPSILON
    /\ RGt(call.out[1], Zero)

\* the vector that normal_at normalises: the local normal at the point,
\* taken to world space by the transpose of the inverse, with w set to 0
ObjectPoint == matrix_mul_vec(call.shape.inv_transform, call.point)
LocalNormal ==
    IF call.shape.kind = "plane" THEN vector(Zero, One, Zero)
    ELSE VSub(ObjectPoint, point(Zero, Zero, Zero))
Unnormalised == matrix_mul_vec(transpose(call.shape.inv_transform), LocalNormal)
SquaredLength == RAdd(RAdd(RMul(Unnormalised[1], Unnormalised[1]),
                           RMul(Unnormalised[2], Unnormalised[2])),
                      RMul(Unnormalised[3], Unnormalised[3]))

\* the tolerance of a magnitude: the square root is rounded down to a
\* multiple of 1 / SqrtScale, of a length that is at least 1 when it is not
\* exact
NormalTolerance == Q(SqrtScale * SqrtScale, (SqrtScale - 1) * (SqrtScale - 1))

UnitVector ==
    /\ call.out[4] = Zero
    /\ RLe(One, dot(call.out, call.out))
    /\ RLe(dot(call.out, call.out), NormalTolerance)

\* C17, as stated: for every shape and every world point normal_at returns a
\* vector of w = 0 and of magnitude 1 within the tolerance
C17_NormalIsUnitVector == call.fn = "normal_at" => UnitVector

\* C17, away from the centre: normal_at returns a vector of w = 0 and of
\* magnitude 1 within the tolerance whenever the vector it normalises is not
\* the zero vector, under translation and non-uniform scaling included
C17_NormalIsUnitVectorOffCentre ==
    call.fn = "normal_at" /\ SquaredLength # Zero => UnitVector

\* a normal of a sphere scaled non-uniformly, at a point off its axes
C17_Witness ==
    /\ call.fn = "normal_at" /\ call.shape.kind = "sphere"
    /\ call.shape.inv_transform = scaling(One, R(2), One)
    /\ call.point = point(One, R(2), R(2))
    /\ call.out[4] = Zero /\ call.out[2] # Zero /\ call.out[3] # Zero

Larger(a, b) == IF a >= b THEN a ELSE b

RootsOf(k) == intersect(world.objects[k], call.ray)

RECURSIVE SumOfCounts(_)
SumOfCounts(k) == IF k = 0 THEN 0 ELSE Len(RootsOf(k)) + SumOfCounts(k - 1)

Occurrences(seq, x) == Cardinality({ i \in 1..Len(seq) : seq[i] = x })

\* every shape's values are in the collection, each as often as the shape
\* returned it, under the shape's own name, and nothing else is
ExactlyTheIntersections ==
    /\ Len(call.out) = SumOfCounts(Len(world.objects))
    /\ \A i \in 1..Len(call.out) :
          \E k \in 1..Len(world.objects) :
            /\ call.out[i].object = world.objects[k]
            /\ Occurrences(call.out, call.out[i]) = Occurrences(RootsOf(k), call.out[i].t)

InOrderOfT ==
    \A i, j \in 1..Len(call.out) : i < j => RLe(call.out[i].t, call.out[j].t)

\* C19, as stated: World::intersect holds exactly the intersections of the
\* shapes of the world with the ray, as many as the shapes returned in all,
\* each under its shape, in non-decreasing order of t
C19_AllIntersectionsInOrder ==
    call.fn = "World::intersect" => ExactlyTheIntersections /\ InOrderOfT

\* C19, for t values that are numbers: the same, when no shape returned NaN
C19_AllIntersectionsInOrderOfNumbers ==
    call.fn = "World::intersect" =>
        /\ ExactlyTheIntersections
        /\ ((\A i \in 1..Len(call.out) : call.out[i].t # NaN) => InOrderOfT)

\* two spheres, the far one added first: four intersections, the near
\* sphere's first
C19_Witness ==
    /\ call.fn = "World::intersect" /\ Len(world.objects) = 2 /\ Len(call.out) = 4
    /\ call.out[1].object = world.objects[2] /\ call.out[4].object = world.objects[1]
    /\ RLt(call.out[1].t, call.out[4].t)

\* the normal of the shape at the point of the intersection, and its dot
\* product with the vector toward the eye
SurfaceNormal == normal_at(call.i.object, position(call.ray, call.i.t))
Facing == dot(SurfaceNormal, VNeg(call.ray.direction))

InsideFlips ==
    /\ call.out.eye_vector = VNeg(call.ray.direction)
    /\ call.out.point = position(call.ray, call.i.t)
    /\ IF RLt(Facing, Zero)
       THEN call.out.inside /\ call.out.normal_vector = VNeg(SurfaceNormal)
       ELSE ~call.out.inside /\ call.out.normal_vector = SurfaceNormal

FacesTheEye == RGe(dot(call.out.normal_vector, call.out.eye_vector), Zero)

\* C20, as stated: prepare_computations sets inside and negates the normal
\* exactly when dot(normal_at(point), -direction) < 0, and otherwise clears
\* inside and keeps the normal; either way dot(normal_vector, eye_vector) >= 0,
\* eye_vector = -direction and point = ray.position(t)
C20_InsideFlipsNormal ==
    call.fn = "prepare_computations" => InsideFlips /\ FacesTheEye

\* C20, where the shape has a normal: the same, the sign of
\* dot(normal_vector, eye_vector) being claimed when normal_at is not NaN
C20_InsideFlipsNormalOffCentre ==
    call.fn = "prepare_computations" =>
        InsideFlips /\ (Facing # NaN => FacesTheEye)

\* an intersection seen from inside the sphere
C20_Witness ==
    /\ call.fn = "prepare_computations" /\ call.out.inside
    /\ call.out.normal_vector = VNeg(SurfaceNormal)
    /\ RGt(dot(call.out.normal_vector, call.out.eye_vector), Zero)
    /\ RLt(dot(SurfaceNormal, call.out.eye_vector), Zero)

\* the displacement of over_point from point
Offset == VSub(call.out.over_point, call.out.point)

LineStarts(file) == {1} \cup { i + 1 : i \in { j \in 1..Len(file) : file[j] = Newline } }

LineEnd(file, start) ==
    CHOOSE j \in start..(Len(file) + 1) :
        /\ j = Len(file) + 1 \/ file[j] = Newline
        /\ \A k \in start..(j - 1) : file[k] # Newline

LineLengths(file) ==
    { StrLen(SubSeq(file, start, LineEnd(file, start) - 1)) : start \in LineStarts(file) }

LongestLine == CHOOSE n \in LineLengths(call.out.file) :
                   \A m \in LineLengths(call.out.file) : m <= n

\* C22: in the text that Canvas::save wrote to a writer that took every byte,
\* no line is longer than 70 characters, newline excluded, whatever the
\* canvas and its colours
C22_NoLineOver70 ==
    call.fn = "save" /\ call.out.st = "ok" /\ ~call.writer.short => LongestLine <= 70

\* a saved row of seven pixels whose first line is 70 characters long before
\* the separator of the seventh pixel is written
C22_LineOf71 ==
    /\ call.fn = "save" /\ call.out.st = "ok" /\ ~call.writer.short
    /\ call.canvas = Painted(7, 1, white, Color_new(One, One, Q(1, 5)), white)
    /\ LongestLine = 71


\* the colour a pixel of the canvas must show: that of its last write, black
\* when it was never written
LastWritten(x, y) ==
    IF <<x, y>> \in DOMAIN call.last THEN call.last[<<x, y>>] ELSE black

\* C23: on a canvas made by Canvas::new(w, h) and written by any sequence of
\* write_pixel, pixel_at(x, y) is the colour of the last write_pixel(x, y, _),
\* or black when there was none, and the canvas keeps its h rows of w pixels
C23_PixelsKeepLastWrite ==
    call.fn \in {"Canvas::new", "write_pixel"} =>
        /\ height(call.canvas) = call.h
        /\ \A y \in 0..(call.h - 1) :
               /\ Len(call.canvas[y + 1]) = call.w
               /\ \A x \in 0..(call.w - 1) :
                      pixel_at(call.canvas, x, y) = LastWritten(x, y)

\* a canvas of two rows of two pixels where (1, 0) was written white and then
\* black, (0, 1) was written white and the two others were never written
C23_Witness ==
    /\ call.fn = "write_pixel" /\ call.st = "ok" /\ call.w = 2 /\ call.h = 2
    /\ DOMAIN call.last = { <<1, 0>>, <<0, 1>> }
    /\ call.last[<<0, 1>>] = white /\ call.last[<<1, 0>>] = black
    /\ pixel_at(call.canvas, 0, 1) = white /\ pixel_at(call.canvas, 1, 0) = black
    /\ pixel_at(call.canvas, 0, 0) = black /\ pixel_at(call.canvas, 1, 1) = black


C25_TranslationKeepsDirection ==
    call.fn = "transform" =>
        /\ call.out.origin = matrix_mul_vec(call.m, call.ray.origin)
        /\ call.out.direction = matrix_mul_vec(call.m, call.ray.direction)
        /\ \A o \in Offsets :
               call.m = translation(o[1], o[2], o[3]) =>
                   /\ call.out.direction = call.ray.direction
                   /\ call.out.origin = VAdd(call.ray.origin, vector(o[1], o[2], o[3]))

\* the same of the rays whose origin has w = 1 and whose direction has w = 0
C25_TranslationKeepsTypedDirection ==
    call.fn = "transform" /\ call.ray.origin[4] = One /\ call.ray.direction[4] = Zero =>
        \A o \in Offsets :
            call.m = translation(o[1], o[2], o[3]) =>
                /\ call.out.direction = call.ray.direction
                /\ call.out.origin = VAdd(call.ray.origin, vector(o[1], o[2], o[3]))


\* the intersections pushed, in the order of the pushes, whose t is the t of
\* the hit
PushedAtHit == { k \in 1..Len(pushed) : pushed[k].t = hitRes.t }

FirstPushedAtHit == CHOOSE k \in PushedAtHit : \A j \in PushedAtHit : k <= j

TimesIn(s, e) == Cardinality({ k \in 1..Len(s) : s[k] = e })

\* C28: after n pushes from the empty collection len() is n, and every
\* (t, object) pair is stored as many times as it was pushed
C28_PushKeepsEveryEntry ==
    /\ len(xs) = Len(pushed)
    /\ \A k \in 1..Len(pushed) : TimesIn(xs, pushed[k]) = TimesIn(pushed, pushed[k])
    /\ \A k \in 1..Len(xs) : TimesIn(pushed, xs[k]) = TimesIn(xs, xs[k])

\* one pair was pushed twice around a smaller one, and the sort moved them
C28_Witness ==
    /\ Len(pushed) = 3 /\ len(xs) = 3
    /\ pushed[1] = pushed[3] /\ RLt(pushed[2].t, pushed[1].t)
    /\ xs[1] = pushed[2] /\ xs[2] = pushed[1] /\ xs[3] = pushed[1]


\* the colour of the material of the hit shape at comps.point, seen along
\* comps.eye_vector on the normal comps.normal_vector, in shadow or not
Lit(in_shadow) ==
    lighting(call.comps.object.material, world.light_source, call.comps.point,
             call.comps.eye_vector, call.comps.normal_vector, in_shadow)

\* C27: the colour of shade_hit(comps) is the lighting of the hit shape's
\* material at comps.point with comps.eye_vector and comps.normal_vector,
\* in shadow exactly when comps.over_point is shadowed
C27_ShadowTestedAtOverPoint ==
    call.fn = "shade_hit" /\ call.st = "ok" =>
        \E in_shadow \in is_shadowed(world, call.comps.over_point) :
            in_shadow.st = "ok" /\ call.out = Lit(in_shadow.val)

\* a hit from outside on the side of the light: the hit point itself, on the
\* surface, counts as shadowed by its own sphere, the over_point does not,
\* and the colour is the lit one
C27_Witness ==
    /\ call.fn = "shade_hit" /\ call.st = "ok"
    /\ ~call.comps.inside
    /\ \A s \in is_shadowed(world, call.comps.point) : s.st = "ok" /\ s.val
    /\ \A s \in is_shadowed(world, call.comps.over_point) : s.st = "ok" /\ ~s.val
    /\ call.out = Lit(FALSE) /\ call.out # Lit(TRUE)


\* C29: render of any camera the builder built, one of hsize = 0 or
\* vsize = 0 included, returns: it neither underflows in hsize - 1 or
\* vsize - 1 nor writes a pixel outside the canvas
C29_RenderReturns ==
    renderRes.called =>
        /\ renderRes.st = "ok"
        /\ \A k \in 1..Len(renderRes.writes) :
               /\ renderRes.writes[k][1] < built.obj.hsize
               /\ renderRes.writes[k][2] < built.obj.vsize


\* the number of writes save makes on a writer that fails none: the header,
\* and those of the rows
WritesOf(canvas) == 1 + Len(rows_writes(canvas, 1))

\* C30: save of a canvas that has a row never panics; it returns the error
\* when one of its writes failed, the header's included, and Ok only when
\* none did
C30_SaveReturnsEveryError ==
    call.fn = "save" /\ Len(call.canvas) > 0 =>
        /\ call.out.st # "panic"
        /\ call.out.st = "err" <=>
               (call.writer.fail_at >= 1 /\ call.writer.fail_at <= WritesOf(call.canvas))

\* the same of the writes after the header
C30_SaveReturnsErrorsOfRows ==
    call.fn = "save" /\ Len(call.canvas) > 0 /\ call.writer.fail_at # 1 =>
        /\ call.out.st # "panic"
        /\ call.out.st = "err" <=>
               (call.writer.fail_at >= 2 /\ call.writer.fail_at <= WritesOf(call.canvas))


====
